---- MODULE Spec2Model ----
(***************************************************************************)
(* A model of the fantasy ADP/ECR reconciliation pipeline:                 *)
(*   - key derivation (compare_adp_vs_ecr.clean_name),                     *)
(*   - rank assignment (final_ranks_from_stats, clean_stats_overall),      *)
(*   - joins (utils.merge.merge_all, join_ecr_adp_final),                  *)
(*   - metrics (evaluate_one), and the per-partition driver loops.         *)
(* Tables are sequences of records, text is a sequence of one-character    *)
(* strings, a missing value (NaN) is a value outside every number range.    *)
(***************************************************************************)
EXTENDS Integers, Sequences, FiniteSets, TLC

VARIABLES
    name_raw,      \* clean_name: the raw name handed to the function
    name_key,      \* clean_name(name_raw)
    name_rekey,    \* clean_name(name_key)
    name_pc,       \* "raw" | "keyed" | "rekeyed"
    rk_stats,      \* the performance table handed to the rank functions
    rk_final,      \* result of final_ranks_from_stats, "pending" before the call
    rk_overall,    \* result of clean_stats_overall, "pending" before the call
    mg_adp,        \* merge_all: df_adp,   [has_year, rows]
    mg_ecr,        \* merge_all: df_ecr,   [has_year, rows]
    mg_stats,      \* merge_all: df_stats, [has_year, rows]
    mg_out,        \* result of merge_all, "pending" before the call
    jn_part,       \* join_ecr_adp_final: the partition [year, scoring, pos]
    jn_ecr,        \* the consensus file of the partition
    jn_adp,        \* the draft-position file of the partition
    jn_fin,        \* the performance file of the partition
    jn_merged,     \* result of join_ecr_adp_final, "pending" before the call
    jn_topx,       \* the topX_map evaluate_one was called with
    jn_metrics,    \* result of evaluate_one, "pending" before the call
    run_kind,      \* the loop: "harvest_stats" | "harvest_adp" | "harvest_ecr" | "main"
    run_years,     \* the years the loop ranges over
    run_scorings,  \* the scorings the loop ranges over
    run_positions, \* the positions the loop ranges over
    run_at,        \* the loop variables, as positions [y, s, p] in the ranges
    run_attempted, \* the partitions whose loop body has run, in that order
    run_errs,      \* how many of them ended in the except clause
    run_last,      \* the status line of the last one
    run_state,     \* "running" | "looped" | "done"
    ft_left,       \* session GET: the retries the Retry object has left (its total)
    ft_sent,       \* the requests sent for this GET
    ft_last,       \* what the last request met: [kind, status, retry_after]
    ft_state,      \* "sending" | "returned" | "raised"
    hv_kind,       \* one harvester at work: "harvest_stats" | "harvest_adp" | "harvest_ecr"
    hv_bodies,     \* how many loop bodies have run
    hv_page,       \* the answer to the page request of the last body
    hv_csv,        \* the answer to the export request of the last body
    hv_body,       \* what the last body did: sleeps, requests, extractions, writes, lines
    hv_events,     \* what all bodies did, in order
    rp_results,    \* main: what each partition of the run comes to, in loop order
    rp_i,          \* how many partitions have been through the loop body
    rp_all,        \* all_metrics
    rp_out,        \* the end of main: [written, rows, line]
    rp_state,      \* "looping" | "done"
    pk_tables,     \* the table pickers: the tables of a document, [cols, nrows] each
    pk_adp,        \* result of pick_adp_table: [done, table]
    pk_ecr,        \* result of _pick_ecr_table
    pk_fpts,       \* result of pick_fpts_table
    rs_doc,        \* table resolution: the page, [csv, global_fails, tables, ranking]
    rs_ecr,        \* result of fetch_ecr on the page: [done, status, table, tried]
    rs_adp,        \* result of read_tables and pick_adp_table on the page
    nz_headers,    \* the normalizers: the headers of the input table, in order
    nz_adp,        \* result of normalize_adp_df: [done, status, cols]
    nz_ecr,        \* result of normalize_ecr_df
    nz_stats,      \* result of normalize_stats_df
    cz_cells,      \* numeric coercion: the cells of a designated numeric column, as text
    cz_norm,       \* the column after the to_numeric of a normalizer: [done, status, values]
    cz_overall,    \* result of clean_stats_overall on a table with that points column
    en_kind,       \* predictor ranks: which table en_in is, "ecr" or "adp"
    en_in,         \* the table given to ensure_ecr_rank or add_adp_ranks
    en_out,        \* what the function returned: [done, df]
    ss_adp,        \* seasons in the join: the draft-position table of several seasons, before clean_adp
    ss_ecr,        \* the consensus table of several seasons, before clean_ecr
    ss_stats,      \* the performance table given to merge_all
    ss_out,        \* what merge_all returned for the cleaned tables
    wt_p,          \* the table written: the position a harvester was asked for
    wt_table,      \* the table the picker or fetch_ecr returned
    wt_stats,      \* what harvest_stats did with it
    wt_adp,        \* what harvest_adp did with it
    wt_ecr         \* what harvest_ecr did with it

keyVars == <<name_raw, name_key, name_rekey, name_pc>>

rankVars == <<rk_stats, rk_final, rk_overall>>

mergeVars == <<mg_adp, mg_ecr, mg_stats, mg_out>>

joinVars == <<jn_part, jn_ecr, jn_adp, jn_fin, jn_merged, jn_topx, jn_metrics>>

runVars ==
    <<run_kind, run_years, run_scorings, run_positions, run_at, run_attempted,
      run_errs, run_last, run_state>>

fetchVars == <<ft_left, ft_sent, ft_last, ft_state>>

harvestVars == <<hv_kind, hv_bodies, hv_page, hv_csv, hv_body, hv_events>>

reportVars == <<rp_results, rp_i, rp_all, rp_out, rp_state>>

pickVars == <<pk_tables, pk_adp, pk_ecr, pk_fpts>>

resolveVars == <<rs_doc, rs_ecr, rs_adp>>

normalizeVars == <<nz_headers, nz_adp, nz_ecr, nz_stats>>

coerceVars == <<cz_cells, cz_norm, cz_overall>>

ensureVars == <<en_kind, en_in, en_out>>

seasonVars == <<ss_adp, ss_ecr, ss_stats, ss_out>>

emitVars == <<wt_p, wt_table, wt_stats, wt_adp, wt_ecr>>

vars ==
    <<keyVars, rankVars, mergeVars, joinVars, runVars, fetchVars,
      harvestVars, reportVars, pickVars, resolveVars, normalizeVars,
      coerceVars, ensureVars, seasonVars, emitVars>>

\* what the actions of one part of the model leave alone
notKeyVars ==
    <<rankVars, mergeVars, joinVars, runVars, fetchVars, harvestVars,
      reportVars, pickVars, resolveVars, normalizeVars, coerceVars,
      ensureVars, seasonVars, emitVars>>

notRankVars ==
    <<keyVars, mergeVars, joinVars, runVars, fetchVars, harvestVars,
      reportVars, pickVars, resolveVars, normalizeVars, coerceVars,
      ensureVars, seasonVars, emitVars>>

notMergeVars ==
    <<keyVars, rankVars, joinVars, runVars, fetchVars, harvestVars,
      reportVars, pickVars, resolveVars, normalizeVars, coerceVars,
      ensureVars, seasonVars, emitVars>>

notJoinVars ==
    <<keyVars, rankVars, mergeVars, runVars, fetchVars, harvestVars,
      reportVars, pickVars, resolveVars, normalizeVars, coerceVars,
      ensureVars, seasonVars, emitVars>>

notRunVars ==
    <<keyVars, rankVars, mergeVars, joinVars, fetchVars, harvestVars,
      reportVars, pickVars, resolveVars, normalizeVars, coerceVars,
      ensureVars, seasonVars, emitVars>>

notFetchVars ==
    <<keyVars, rankVars, mergeVars, joinVars, runVars, harvestVars,
      reportVars, pickVars, resolveVars, normalizeVars, coerceVars,
      ensureVars, seasonVars, emitVars>>

notHarvestVars ==
    <<keyVars, rankVars, mergeVars, joinVars, runVars, fetchVars, reportVars,
      pickVars, resolveVars, normalizeVars, coerceVars, ensureVars,
      seasonVars, emitVars>>

notReportVars ==
    <<keyVars, rankVars, mergeVars, joinVars, runVars, fetchVars,
      harvestVars, pickVars, resolveVars, normalizeVars, coerceVars,
      ensureVars, seasonVars, emitVars>>

notPickVars ==
    <<keyVars, rankVars, mergeVars, joinVars, runVars, fetchVars,
      harvestVars, reportVars, resolveVars, normalizeVars, coerceVars,
      ensureVars, seasonVars, emitVars>>

notResolveVars ==
    <<keyVars, rankVars, mergeVars, joinVars, runVars, fetchVars,
      harvestVars, reportVars, pickVars, normalizeVars, coerceVars,
      ensureVars, seasonVars, emitVars>>

notNormalizeVars ==
    <<keyVars, rankVars, mergeVars, joinVars, runVars, fetchVars,
      harvestVars, reportVars, pickVars, resolveVars, coerceVars, ensureVars,
      seasonVars, emitVars>>

notCoerceVars ==
    <<keyVars, rankVars, mergeVars, joinVars, runVars, fetchVars,
      harvestVars, reportVars, pickVars, resolveVars, normalizeVars,
      ensureVars, seasonVars, emitVars>>

notEnsureVars ==
    <<keyVars, rankVars, mergeVars, joinVars, runVars, fetchVars,
      harvestVars, reportVars, pickVars, resolveVars, normalizeVars,
      coerceVars, seasonVars, emitVars>>

notSeasonVars ==
    <<keyVars, rankVars, mergeVars, joinVars, runVars, fetchVars,
      harvestVars, reportVars, pickVars, resolveVars, normalizeVars,
      coerceVars, ensureVars, emitVars>>

notEmitVars ==
    <<keyVars, rankVars, mergeVars, joinVars, runVars, fetchVars,
      harvestVars, reportVars, pickVars, resolveVars, normalizeVars,
      coerceVars, ensureVars, seasonVars>>

\* a missing value; every comparison and sum tests for it first
NaN == 0 - 1

Min(S) == CHOOSE x \in S : \A y \in S : x <= y

(***************************************************************************)
(* Characters                                                              *)
(***************************************************************************)
UpperLetters == <<"A","B","C","D","E","F","G","H","I","J","K","L","M",
                  "N","O","P","Q","R","S","T","U","V","W","X","Y","Z">>

LowerLetters == <<"a","b","c","d","e","f","g","h","i","j","k","l","m",
                  "n","o","p","q","r","s","t","u","v","w","x","y","z">>

Digits == {"0","1","2","3","4","5","6","7","8","9"}

IsUpper(c) == \E i \in 1..26 : UpperLetters[i] = c

IsLetter(c) == \E i \in 1..26 : UpperLetters[i] = c \/ LowerLetters[i] = c

\* \w of the re module: letters, digits, underscore
IsWord(c) == IsLetter(c) \/ c \in Digits \/ c = "_"

\* \s restricted to the blanks the model's alphabet has
IsSpace(c) == c \in {" ", "\t"}

\* str.lower() on one character
Lower(c) ==
    IF IsUpper(c)
    THEN LowerLetters[CHOOSE i \in 1..26 : UpperLetters[i] = c]
    ELSE c

RECURSIVE LowerSeq(_)
LowerSeq(s) ==
    IF s = <<>> THEN <<>> ELSE <<Lower(Head(s))>> \o LowerSeq(Tail(s))

\* s[i..j] equals the lower-case word w, ignoring case (re.I)
MatchesCI(s, i, w) ==
    /\ i >= 1
    /\ i + Len(w) - 1 <= Len(s)
    /\ \A k \in 1..Len(w) : Lower(s[i + k - 1]) = w[k]

(***************************************************************************)
(* clean_name, one definition per re.sub of the function                   *)
(***************************************************************************)

\* re.sub(r"\s+\(.*?\)$", "", s): the leftmost blank run that is followed by
\* "(" is cut, with everything after it, when the text ends with ")".
StripParenSuffix(s) ==
    LET n == Len(s)
        starts == { i \in 1..n :
                      \E j \in i..(n - 2) :
                          /\ \A k \in i..j : IsSpace(s[k])
                          /\ s[j + 1] = "("
                          /\ s[n] = ")"
                          /\ \A k \in (j + 2)..(n - 1) : s[k] # "\n" }
    IN  IF starts = {} THEN s ELSE SubSeq(s, 1, Min(starts) - 1)

\* re.sub(r"\s+D/?ST$", "", s, flags=re.I)
StripDstSuffix(s) ==
    LET n == Len(s)
        d == IF MatchesCI(s, n - 2, <<"d","s","t">>) THEN n - 2
             ELSE IF MatchesCI(s, n - 3, <<"d","/","s","t">>) THEN n - 3
             ELSE 0
        starts == { i \in 1..(d - 1) : \A k \in i..(d - 1) : IsSpace(s[k]) }
    IN  IF d = 0 \/ starts = {} THEN s ELSE SubSeq(s, 1, Min(starts) - 1)

\* \b between s[i-1] and s[i]
WordBoundary(s, i) ==
    LET before == i >= 2 /\ i - 1 <= Len(s) /\ IsWord(s[i - 1])
        after  == i >= 1 /\ i <= Len(s) /\ IsWord(s[i])
    IN  before # after

\* length of the match of \b(JR\.?|SR\.?|III|II)\b that starts at i, 0 if none
GenSuffixMatchLen(s, i) ==
    IF ~WordBoundary(s, i) THEN 0
    ELSE IF MatchesCI(s, i, <<"j","r">>) \/ MatchesCI(s, i, <<"s","r">>)
         THEN IF i + 2 <= Len(s) /\ s[i + 2] = "." /\ WordBoundary(s, i + 3)
              THEN 3
              ELSE IF WordBoundary(s, i + 2) THEN 2 ELSE 0
    ELSE IF MatchesCI(s, i, <<"i","i","i">>) /\ WordBoundary(s, i + 3) THEN 3
    ELSE IF MatchesCI(s, i, <<"i","i">>) /\ WordBoundary(s, i + 2) THEN 2
    ELSE 0

RECURSIVE RemoveGenSuffixFrom(_, _)
RemoveGenSuffixFrom(s, i) ==
    IF i > Len(s) THEN <<>>
    ELSE LET len == GenSuffixMatchLen(s, i)
         IN  IF len > 0 THEN RemoveGenSuffixFrom(s, i + len)
             ELSE <<s[i]>> \o RemoveGenSuffixFrom(s, i + 1)

\* re.sub(r"\b(JR\.?|SR\.?|III|II)\b", "", s, flags=re.I)
RemoveGenSuffix(s) == RemoveGenSuffixFrom(s, 1)

\* re.sub(r"[^A-Za-z '\-]", "", s)
KeepNameChars(s) ==
    SelectSeq(s, LAMBDA c : IsLetter(c) \/ c \in {" ", "'", "-"})

\* re.sub(r"\s+", " ", s)
RECURSIVE CollapseSpaces(_)
CollapseSpaces(s) ==
    IF s = <<>> THEN <<>>
    ELSE IF IsSpace(Head(s))
         THEN IF Len(s) >= 2 /\ IsSpace(s[2])
              THEN CollapseSpaces(Tail(s))
              ELSE <<" ">> \o CollapseSpaces(Tail(s))
         ELSE <<Head(s)>> \o CollapseSpaces(Tail(s))

\* str.strip()
RECURSIVE StripLeft(_)
StripLeft(s) ==
    IF s # <<>> /\ IsSpace(Head(s)) THEN StripLeft(Tail(s)) ELSE s

RECURSIVE StripRight(_)
StripRight(s) ==
    IF s # <<>> /\ IsSpace(s[Len(s)])
    THEN StripRight(SubSeq(s, 1, Len(s) - 1))
    ELSE s

Strip(s) == StripRight(StripLeft(s))

clean_name(s) ==
    LowerSeq(Strip(CollapseSpaces(KeepNameChars(
        RemoveGenSuffix(StripDstSuffix(StripParenSuffix(s)))))))

(***************************************************************************)
(* Key derivation as a state machine: a raw name is keyed, and the key is  *)
(* keyed again.                                                            *)
(***************************************************************************)
MaxNameLen == 4

NameAlphabet == {"J", "r", "I", "D", "S", "T", " ", ".", "/", "(", ")"}

RECURSIVE SeqsUpTo(_, _)
SeqsUpTo(S, n) ==
    IF n = 0 THEN {<<>>}
    ELSE LET shorter == SeqsUpTo(S, n - 1)
         IN  shorter \cup { Append(s, x) : s \in shorter, x \in S }

\* what a call has returned: its status ("pending" before the call, "ok", or
\* the name of the exception raised) and the rows of the table returned
Result(status, rows) == [status |-> status, rows |-> rows]

\* the top-X map of the metrics script, its default, the first season
DefaultTopX == 12

FirstSeason == 2015

TOPX_DEFAULTS ==
    [QB |-> 12, RB |-> 24, WR |-> 36, TE |-> 12, K |-> 12, DST |-> 12]

\* a data frame without columns or rows
EmptyDF == [cols |-> {}, rows |-> <<>>]

\* what join_ecr_adp_final has returned: status, the frame, and the labels
\* of the [SKIP] lines that _require_player_key_or_skip printed
JoinResult(status, df, skips) ==
    [ status |-> status, df |-> df, skips |-> skips ]

\* a file that does not exist
MissingFile == [ exists |-> FALSE, cols |-> {}, rows |-> <<>> ]

KeyIdle ==
    /\ name_raw = <<>>
    /\ name_key = <<>>
    /\ name_rekey = <<>>
    /\ name_pc = "idle"

RankIdle ==
    /\ rk_stats = [has_points |-> FALSE, pos_col |-> "none", rows |-> <<>>]
    /\ rk_final = Result("idle", <<>>)
    /\ rk_overall = Result("idle", <<>>)

MergeIdle ==
    /\ mg_adp = [has_year |-> FALSE, rows |-> <<>>]
    /\ mg_ecr = [has_year |-> FALSE, rows |-> <<>>]
    /\ mg_stats = [has_year |-> FALSE, rows |-> <<>>]
    /\ mg_out = Result("idle", <<>>)

JoinIdle ==
    /\ jn_part = [year |-> FirstSeason, scoring |-> "ppr", pos |-> "qb"]
    /\ jn_ecr = MissingFile
    /\ jn_adp = MissingFile
    /\ jn_fin = MissingFile
    /\ jn_merged = JoinResult("idle", EmptyDF, <<>>)
    /\ jn_topx = TOPX_DEFAULTS
    /\ jn_metrics = Result("idle", <<>>)

RunIdle ==
    /\ run_kind = "none"
    /\ run_years = <<>>
    /\ run_scorings = <<>>
    /\ run_positions = <<>>
    /\ run_at = [y |-> 1, s |-> 1, p |-> 1]
    /\ run_attempted = <<>>
    /\ run_errs = 0
    /\ run_last = "none"
    /\ run_state = "idle"

FetchIdle ==
    /\ ft_left = 0
    /\ ft_sent = 0
    /\ ft_last = [kind |-> "none", status |-> 0, retry_after |-> FALSE]
    /\ ft_state = "idle"

HarvestIdle ==
    /\ hv_kind = "none"
    /\ hv_bodies = 0
    /\ hv_page = [result |-> "none", status |-> 0, login |-> FALSE, tables |-> "none", csv_link |-> FALSE]
    /\ hv_csv = [result |-> "none", status |-> 0, content |-> "nothing"]
    /\ hv_body = <<>>
    /\ hv_events = <<>>

ReportIdle ==
    /\ rp_results = <<>>
    /\ rp_i = 0
    /\ rp_all = <<>>
    /\ rp_out = [written |-> FALSE, rows |-> <<>>, line |-> "none"]
    /\ rp_state = "idle"

PickIdle ==
    /\ pk_tables = <<>>
    /\ pk_adp = [done |-> FALSE, table |-> [cols |-> <<>>, nrows |-> 0]]
    /\ pk_ecr = [done |-> FALSE, table |-> [cols |-> <<>>, nrows |-> 0]]
    /\ pk_fpts = [done |-> FALSE, table |-> [cols |-> <<>>, nrows |-> 0]]

ResolveIdle ==
    /\ rs_doc = [csv |-> "none", global_fails |-> FALSE, tables |-> <<>>, ranking |-> 0]
    /\ rs_ecr = [done |-> FALSE, status |-> "idle", table |-> [cols |-> <<>>, nrows |-> 0], tried |-> <<>>]
    /\ rs_adp = [done |-> FALSE, status |-> "idle", table |-> [cols |-> <<>>, nrows |-> 0], tried |-> <<>>]

NormalizeIdle ==
    /\ nz_headers = <<>>
    /\ nz_adp = [done |-> FALSE, status |-> "idle", cols |-> <<>>]
    /\ nz_ecr = [done |-> FALSE, status |-> "idle", cols |-> <<>>]
    /\ nz_stats = [done |-> FALSE, status |-> "idle", cols |-> <<>>]

CoerceIdle ==
    /\ cz_cells = <<>>
    /\ cz_norm = [done |-> FALSE, status |-> "idle", values |-> <<>>]
    /\ cz_overall = [status |-> "idle", rows |-> <<>>]

EnsureIdle ==
    /\ en_kind = "none"
    /\ en_in = [cols |-> {}, rows |-> <<>>]
    /\ en_out = [done |-> FALSE, df |-> [cols |-> {}, rows |-> <<>>]]

SeasonIdle ==
    /\ ss_adp = [has_year |-> FALSE, rows |-> <<>>]
    /\ ss_ecr = [has_year |-> FALSE, rows |-> <<>>]
    /\ ss_stats = [has_year |-> FALSE, rows |-> <<>>]
    /\ ss_out = [status |-> "idle", rows |-> <<>>]

EmitIdle ==
    /\ wt_p = <<>>
    /\ wt_table = [has_pos |-> FALSE, rows |-> <<>>]
    /\ wt_stats = [done |-> FALSE, line |-> "", file |-> <<>>]
    /\ wt_adp = [done |-> FALSE, line |-> "", file |-> <<>>]
    /\ wt_ecr = [done |-> FALSE, line |-> "", file |-> <<>>]

KeyInit ==
    /\ RankIdle
    /\ MergeIdle
    /\ JoinIdle
    /\ RunIdle
    /\ FetchIdle
    /\ HarvestIdle
    /\ ReportIdle
    /\ PickIdle
    /\ ResolveIdle
    /\ NormalizeIdle
    /\ CoerceIdle
    /\ EnsureIdle
    /\ SeasonIdle
    /\ EmitIdle
    /\ name_raw \in SeqsUpTo(NameAlphabet, MaxNameLen)
    /\ name_key = <<>>
    /\ name_rekey = <<>>
    /\ name_pc = "raw"

DeriveKey ==
    /\ name_pc = "raw"
    /\ name_key' = clean_name(name_raw)
    /\ name_pc' = "keyed"
    /\ UNCHANGED <<name_raw, name_rekey, notKeyVars>>

RederiveKey ==
    /\ name_pc = "keyed"
    /\ name_rekey' = clean_name(name_key)
    /\ name_pc' = "rekeyed"
    /\ UNCHANGED <<name_raw, name_key, notKeyVars>>

KeyNext == DeriveKey \/ RederiveKey

SpecKey == KeyInit /\ [][KeyNext]_vars

\* C1: clean_name is idempotent: keying a key gives the same key.
C1_KeyIdempotent == name_pc = "rekeyed" => name_rekey = name_key

(***************************************************************************)
(* Rank assignment from scores.  A performance table is                    *)
(*   [has_points, pos_col, rows], rows a sequence of                       *)
(*   [pos, fantasy_points]; has_points says whether the table has a        *)
(*   points column after _coerce_points_columns / infer_points_column,     *)
(*   pos_col which position column it has ("pos_slug", "pos", "none").     *)
(***************************************************************************)
MaxStatsRows == 3

Scores == 1..2

PosValues == {"QB", "RB", "qb"}

\* str.upper() on the position values of the model
PosUpper(p) == IF p = "qb" THEN "QB" ELSE IF p = "dst" THEN "DST" ELSE p

Indices(s) == 1..Len(s)

\* Series.rank(method="min", ascending=False) inside the group `grp` of row
\* indices: a missing score stays missing, tied scores share the smallest rank.
RankMinDesc(score, grp, i) ==
    IF score[i] = NaN THEN NaN
    ELSE 1 + Cardinality({ j \in grp : score[j] # NaN /\ score[j] > score[i] })

\* a descending "first" rank that ranks ties in reverse order of appearance
RankFirstDescLastSeen(score, grp, i) ==
    IF score[i] = NaN THEN NaN
    ELSE 1 + Cardinality({ j \in grp : score[j] # NaN /\ score[j] > score[i] })
           + Cardinality({ j \in grp : j > i /\ score[j] = score[i] })

\* Series.rank(method="first", ascending=False): ties are ranked in the
\* order of appearance.
RankFirstDesc(score, grp, i) ==
    IF score[i] = NaN THEN NaN
    ELSE 1 + Cardinality({ j \in grp : score[j] # NaN /\ score[j] > score[i] })
           + Cardinality({ j \in grp : j < i /\ score[j] = score[i] })

\* sort_values(col, kind="mergesort") of row labels: the position of label i
\* in the stably sorted order (missing values last).
KeyLess(a, b) == a # NaN /\ (b = NaN \/ a < b)

StablePos(key, i) ==
    1 + Cardinality({ j \in DOMAIN key :
                        KeyLess(key[j], key[i])
                        \/ (~KeyLess(key[i], key[j]) /\ j < i) })

StableOrder(key) ==
    [ p \in DOMAIN key |-> CHOOSE i \in DOMAIN key : StablePos(key, i) = p ]

\* final_ranks_from_stats: adds final_pos_rank, ranked inside each pos_slug
final_ranks_from_stats(t) ==
    IF t.rows = <<>> THEN Result("ok", <<>>)
    ELSE IF ~t.has_points THEN Result("ValueError", <<>>)
    ELSE IF t.pos_col = "none" THEN Result("ValueError", <<>>)
    ELSE LET slug == [ i \in Indices(t.rows) |->
                         IF t.pos_col = "pos_slug" THEN t.rows[i].pos
                         ELSE PosUpper(t.rows[i].pos) ]
             score == [ i \in Indices(t.rows) |-> t.rows[i].fantasy_points ]
         IN  Result("ok",
               [ i \in Indices(t.rows) |->
                 [ pos_slug |-> slug[i],
                   fantasy_points |-> score[i],
                   final_pos_rank |->
                       RankMinDesc(score,
                                   { j \in Indices(t.rows) : slug[j] = slug[i] },
                                   i) ] ])

\* clean_stats_overall, the branch taken when a points column is found:
\* missing points count as 0, rank by points descending, first seen first,
\* rows sorted by the new rank.  `row` is the label of the input row.
clean_stats_overall(t) ==
    LET pts == [ i \in Indices(t.rows) |->
                   IF t.rows[i].fantasy_points = NaN THEN 0
                   ELSE t.rows[i].fantasy_points ]
        rank == [ i \in Indices(t.rows) |->
                    RankFirstDesc(pts, Indices(t.rows), i) ]
        order == StableOrder(rank)
    IN  Result("ok",
          [ p \in Indices(t.rows) |->
            [ row |-> order[p], final_rank |-> rank[order[p]] ] ])

StatsRowValues ==
    [ pos : PosValues, fantasy_points : Scores \cup {NaN} ]

RankInit ==
    /\ KeyIdle
    /\ MergeIdle
    /\ JoinIdle
    /\ RunIdle
    /\ FetchIdle
    /\ HarvestIdle
    /\ ReportIdle
    /\ PickIdle
    /\ ResolveIdle
    /\ NormalizeIdle
    /\ CoerceIdle
    /\ EnsureIdle
    /\ SeasonIdle
    /\ EmitIdle
    /\ rk_stats \in [ has_points : BOOLEAN,
                      pos_col : {"pos_slug", "pos", "none"},
                      rows : SeqsUpTo(StatsRowValues, MaxStatsRows) ]
    /\ rk_final = Result("pending", <<>>)
    /\ rk_overall = Result("pending", <<>>)

FinalRanksFromStats ==
    /\ rk_final.status = "pending"
    /\ rk_final' = final_ranks_from_stats(rk_stats)
    /\ UNCHANGED <<rk_stats, rk_overall, notRankVars>>

CleanStatsOverall ==
    /\ rk_overall.status = "pending"
    /\ rk_stats.has_points
    /\ rk_overall' = clean_stats_overall(rk_stats)
    /\ UNCHANGED <<rk_stats, rk_final, notRankVars>>

RankNext == FinalRanksFromStats \/ CleanStatsOverall

SpecRank == RankInit /\ [][RankNext]_vars

\* the scored rows of the table that final_ranks_from_stats put in `slug`
ScoredGroup(slug) ==
    { i \in Indices(rk_final.rows) :
        /\ rk_final.rows[i].pos_slug = slug
        /\ rk_final.rows[i].fantasy_points # NaN }

FinalRank(i) == rk_final.rows[i].final_pos_rank

\* the rank clean_stats_overall gave to input row i
OverallRank(i) ==
    LET p == CHOOSE q \in Indices(rk_overall.rows) : rk_overall.rows[q].row = i
    IN  rk_overall.rows[p].final_rank

InputScore(i) == rk_stats.rows[i].fantasy_points

OverallDone == rk_overall.status = "ok"

FinalDone == rk_final.status = "ok" /\ rk_final.rows # <<>>

NoYear == 0

Years == {2015, 2016}

\* player names in alphabetical order (the order sort_values gives text)
NameList == <<"a", "b", "c", "d", "e">>

NameIndex(n) == CHOOSE i \in Indices(NameList) : NameList[i] = n

\* join_keys is [player_name, year] only when all three tables have a year
JoinsOnYear(adp, ecr, stats) ==
    adp.has_year /\ ecr.has_year /\ stats.has_year

\* where the column called "year" of the joined table comes from: a column
\* that is in both sides of a merge without being a join key is renamed
\* year_x / year_y, so "year" survives when one or all three tables have it
YearColumn(adp, ecr, stats) ==
    IF JoinsOnYear(adp, ecr, stats) THEN "adp"
    ELSE IF adp.has_year /\ ~ecr.has_year /\ ~stats.has_year THEN "adp"
    ELSE IF ~adp.has_year /\ ecr.has_year /\ ~stats.has_year THEN "ecr"
    ELSE IF ~adp.has_year /\ ~ecr.has_year /\ stats.has_year THEN "stats"
    ELSE "none"

RowYear(col, r) ==
    IF col = "adp" THEN r.adp_year
    ELSE IF col = "ecr" THEN r.ecr_year
    ELSE IF col = "stats" THEN r.stats_year
    ELSE NoYear

\* rows with their position, so a joined row can name its sources
Labelled(rows) == [ i \in Indices(rows) |-> [row |-> i, rec |-> rows[i]] ]

\* F at the value of v: a value that F uses several times is computed once
With(v, F(_)) == CHOOSE r \in { F(x) : x \in {v} } : TRUE

With2(v, w, F(_, _)) == CHOOSE r \in { F(x, y) : x \in {v}, y \in {w} } : TRUE

With3(u, v, w, F(_, _, _)) ==
    CHOOSE r \in { F(x, y, z) : x \in {u}, y \in {v}, z \in {w} } : TRUE

RECURSIVE FlatMap(_, _)
FlatMap(F(_), s) ==
    IF s = <<>> THEN <<>> ELSE F(Head(s)) \o FlatMap(F, Tail(s))

\* df_adp.merge(df_ecr, on=join_keys, how="inner"): left order is kept
MergeAdpEcr(adp, ecr, on_year) ==
    LET match(l) ==
            SelectSeq(Labelled(ecr.rows),
                      LAMBDA r : /\ r.rec.player_name = l.rec.player_name
                                 /\ on_year => r.rec.year = l.rec.year)
        pair(l) ==
            LET rs == match(l)
            IN  [ k \in Indices(rs) |->
                    [ player_name |-> l.rec.player_name,
                      adp_year |-> l.rec.year, ecr_year |-> rs[k].rec.year,
                      espn_adp |-> l.rec.val, ecr_rank |-> rs[k].rec.val,
                      adp_row |-> l.row, ecr_row |-> rs[k].row ] ]
    IN  FlatMap(pair, Labelled(adp.rows))

\* (...).merge(df_stats, on=join_keys, how="inner"), then the two error columns
MergeStats(left, stats, on_year) ==
    LET match(l) ==
            SelectSeq(Labelled(stats.rows),
                      LAMBDA r : /\ r.rec.player_name = l.player_name
                                 /\ on_year => r.rec.year = l.adp_year)
        pair(l) ==
            LET rs == match(l)
            IN  [ k \in Indices(rs) |->
                    [ player_name |-> l.player_name,
                      adp_year |-> l.adp_year, ecr_year |-> l.ecr_year,
                      stats_year |-> rs[k].rec.year,
                      espn_adp |-> l.espn_adp, ecr_rank |-> l.ecr_rank,
                      final_rank |-> rs[k].rec.val,
                      adp_error |-> l.espn_adp - rs[k].rec.val,
                      ecr_error |-> l.ecr_rank - rs[k].rec.val,
                      adp_row |-> l.adp_row, ecr_row |-> l.ecr_row,
                      stats_row |-> rs[k].row ] ]
    IN  FlatMap(pair, left)

Joined(adp, ecr, stats) ==
    MergeStats(MergeAdpEcr(adp, ecr, JoinsOnYear(adp, ecr, stats)),
               stats, JoinsOnYear(adp, ecr, stats))

\* df["final_rank"].duplicated().any(), over the whole joined table
HasDuplicateRank(rows) ==
    \E i, j \in Indices(rows) : i < j /\ rows[i].final_rank = rows[j].final_rank

\* an order that looks at final_rank alone, without the tie-breakers
RerankLessByRankOnly(a, b) == a.final_rank < b.final_rank

\* ascending order on (final_rank, ecr_rank, espn_adp, player_name)
RerankLess(a, b) ==
    \/ a.final_rank < b.final_rank
    \/ /\ a.final_rank = b.final_rank
       /\ \/ a.ecr_rank < b.ecr_rank
          \/ /\ a.ecr_rank = b.ecr_rank
             /\ \/ a.espn_adp < b.espn_adp
                \/ /\ a.espn_adp = b.espn_adp
                   /\ NameIndex(a.player_name) < NameIndex(b.player_name)

\* sort_values(sort_cols, kind="mergesort"): stable
SortRows(rows, Less(_, _)) ==
    LET pos(i) == 1 + Cardinality({ j \in Indices(rows) :
                                      \/ Less(rows[j], rows[i])
                                      \/ (~Less(rows[i], rows[j]) /\ j < i) })
    IN  [ p \in Indices(rows) |->
            rows[CHOOSE i \in Indices(rows) : pos(i) = p] ]

\* a rerank that numbers the rows and leaves the two errors as they were
RerankStaleErrors(rows) ==
    LET g == SortRows(rows, RerankLess)
    IN  [ p \in Indices(g) |-> [ g[p] EXCEPT !.final_rank = p ] ]

\* rerank: sort, final_rank = 1..len, both errors again
Rerank(rows) ==
    LET g == SortRows(rows, RerankLess)
    IN  [ p \in Indices(g) |->
            [ g[p] EXCEPT !.final_rank = p,
                          !.adp_error = g[p].espn_adp - p,
                          !.ecr_error = g[p].ecr_rank - p ] ]

\* groupby("year", group_keys=False).apply(rerank): the groups in ascending
\* order of year, each re-ranked on its own
RECURSIVE RerankByYear(_, _, _)
RerankByYear(rows, col, years) ==
    IF years = {} THEN <<>>
    ELSE LET y == Min(years)
         IN  Rerank(SelectSeq(rows, LAMBDA r : RowYear(col, r) = y))
                \o RerankByYear(rows, col, years \ {y})

merge_all(adp, ecr, stats) ==
    LET df == Joined(adp, ecr, stats)
        col == YearColumn(adp, ecr, stats)
    IN  IF ~HasDuplicateRank(df) THEN Result("ok", df)
        ELSE IF col # "none"
             THEN Result("ok",
                         RerankByYear(df, col,
                             { RowYear(col, df[i]) : i \in Indices(df) }))
             ELSE Result("ok", Rerank(df))

MaxPlayers == 3

MaxJoinRows == 4

RankValues == 1..2

\* names of the players of a roster, in row order (not alphabetical)
RosterNames == <<"b", "a", "c", "d", "e">>

\* inputs of the first kind: the same n players, in the same order, in all
\* three tables, all of them with a year column or none of them
RosterInputs ==
    \E n \in 0..MaxPlayers :
      \E roster \in [ 1..n -> [ year : Years, final_rank : RankValues,
                                ecr_rank : RankValues, espn_adp : RankValues ] ] :
        \E hy \in BOOLEAN :
          LET yr(i) == IF hy THEN roster[i].year ELSE NoYear
          IN  /\ mg_adp = [ has_year |-> hy, rows |->
                    [ i \in 1..n |-> [ player_name |-> RosterNames[i],
                                       year |-> yr(i),
                                       val |-> roster[i].espn_adp ] ] ]
              /\ mg_ecr = [ has_year |-> hy, rows |->
                    [ i \in 1..n |-> [ player_name |-> RosterNames[i],
                                       year |-> yr(i),
                                       val |-> roster[i].ecr_rank ] ] ]
              /\ mg_stats = [ has_year |-> hy, rows |->
                    [ i \in 1..n |-> [ player_name |-> RosterNames[i],
                                       year |-> yr(i),
                                       val |-> roster[i].final_rank ] ] ]

\* a table of the second kind: any names and years, the value of a row is
\* its position in the table
SmallTables(hy, n) ==
    { [ has_year |-> hy, rows |->
          [ i \in 1..n |-> [ player_name |-> keys[i].player_name,
                             year |-> IF hy THEN keys[i].year ELSE NoYear,
                             val |-> i ] ] ] :
        keys \in [ 1..n -> [ player_name : {"a", "b"},
                             year : IF hy THEN Years ELSE {NoYear} ] ] }

\* inputs of the second kind: at most MaxJoinRows rows in the three tables
\* together, each table with or without a year column
SmallTableInputs ==
    \E a, e, s \in 0..MaxJoinRows :
        /\ a + e + s <= MaxJoinRows
        /\ \E ha, he, hs \in BOOLEAN :
              /\ mg_adp \in SmallTables(ha, a)
              /\ mg_ecr \in SmallTables(he, e)
              /\ mg_stats \in SmallTables(hs, s)

MergeInit ==
    /\ KeyIdle
    /\ RankIdle
    /\ JoinIdle
    /\ RunIdle
    /\ FetchIdle
    /\ HarvestIdle
    /\ ReportIdle
    /\ PickIdle
    /\ ResolveIdle
    /\ NormalizeIdle
    /\ CoerceIdle
    /\ EnsureIdle
    /\ SeasonIdle
    /\ EmitIdle
    /\ RosterInputs \/ SmallTableInputs
    /\ mg_out = Result("pending", <<>>)

MergeAll ==
    /\ mg_out.status = "pending"
    /\ mg_out' = merge_all(mg_adp, mg_ecr, mg_stats)
    /\ UNCHANGED <<mg_adp, mg_ecr, mg_stats, notMergeVars>>

MergeNext == MergeAll

SpecMerge == MergeInit /\ [][MergeNext]_vars

MergeDone == mg_out.status = "ok"

\* the final_rank a joined row had before any re-rank: that of its stats row
PrevRank(r) == mg_stats.rows[r.stats_row].val

\* the partition of a row of the result: its year, or NoYear for the whole
\* table when the result has no year column
PartitionOf(r) == RowYear(YearColumn(mg_adp, mg_ecr, mg_stats), r)

SamePartition(p, q) ==
    PartitionOf(mg_out.rows[p]) = PartitionOf(mg_out.rows[q])

\* the joined records carried duplicate final ranks into the re-rank step
DuplicateRanksJoined ==
    \E p, q \in Indices(mg_out.rows) :
        p # q /\ PrevRank(mg_out.rows[p]) = PrevRank(mg_out.rows[q])

RECURSIVE LexLess(_, _)
LexLess(s, u) ==
    /\ s # <<>>
    /\ \/ Head(s) < Head(u)
       \/ (Head(s) = Head(u) /\ LexLess(Tail(s), Tail(u)))

TieBreakKey(r) ==
    <<PrevRank(r), r.ecr_rank, r.espn_adp, NameIndex(r.player_name)>>

\* C3: when the joined records hold duplicate final ranks, the N records of
\* every partition (a year, or the whole table) get exactly the ranks 1..N,
\* each once, in ascending order of (previous final_rank, ecr_rank,
\* espn_adp, player_name).
C3_RerankUniqueOrdered ==
    (MergeDone /\ DuplicateRanksJoined) =>
        \A p \in Indices(mg_out.rows) :
            LET part == { q \in Indices(mg_out.rows) : SamePartition(p, q) }
            IN  /\ { mg_out.rows[q].final_rank : q \in part }
                      = 1..Cardinality(part)
                /\ \A q \in part :
                      mg_out.rows[p].final_rank < mg_out.rows[q].final_rank
                          => ~LexLess(TieBreakKey(mg_out.rows[q]),
                                      TieBreakKey(mg_out.rows[p]))

\* three records of one partition, all ranked 1 before, are ranked 1, 2, 3
C3_Witness ==
    /\ MergeDone
    /\ \E p, q, r \in Indices(mg_out.rows) :
          /\ SamePartition(p, q) /\ SamePartition(q, r)
          /\ PrevRank(mg_out.rows[p]) = 1
          /\ PrevRank(mg_out.rows[q]) = 1
          /\ PrevRank(mg_out.rows[r]) = 1
          /\ mg_out.rows[p].player_name # mg_out.rows[q].player_name
          /\ mg_out.rows[q].player_name # mg_out.rows[r].player_name
          /\ mg_out.rows[p].player_name # mg_out.rows[r].player_name
          /\ mg_out.rows[p].ecr_rank > mg_out.rows[q].ecr_rank
          /\ mg_out.rows[p].final_rank > mg_out.rows[q].final_rank
          /\ mg_out.rows[r].final_rank = 3

\* the join key of an input row and of a joined row
InputKey(r) ==
    <<r.player_name,
      IF JoinsOnYear(mg_adp, mg_ecr, mg_stats) THEN r.year ELSE NoYear>>

InputKeys(tbl) == { InputKey(tbl.rows[i]) : i \in Indices(tbl.rows) }

OutputKey(r) ==
    <<r.player_name,
      IF JoinsOnYear(mg_adp, mg_ecr, mg_stats) THEN r.adp_year ELSE NoYear>>

\* C4: merge_all returns records for exactly the keys that are in all three
\* inputs, and never more records than any one input has rows.
C4_JoinIsIntersection ==
    MergeDone =>
        /\ { OutputKey(mg_out.rows[p]) : p \in Indices(mg_out.rows) }
              = InputKeys(mg_adp) \cap InputKeys(mg_ecr) \cap InputKeys(mg_stats)
        /\ Len(mg_out.rows) <= Len(mg_adp.rows)
        /\ Len(mg_out.rows) <= Len(mg_ecr.rows)
        /\ Len(mg_out.rows) <= Len(mg_stats.rows)

\* C26: in every record merge_all returns, adp_error is espn_adp minus the
\* final_rank of that record and ecr_error is ecr_rank minus it, with or
\* without a re-rank
C26_ErrorsFollowFinalRank ==
    MergeDone =>
        \A p \in Indices(mg_out.rows) :
            /\ mg_out.rows[p].adp_error
                  = mg_out.rows[p].espn_adp - mg_out.rows[p].final_rank
            /\ mg_out.rows[p].ecr_error
                  = mg_out.rows[p].ecr_rank - mg_out.rows[p].final_rank

\* a re-rank per year and a global one have each changed a final rank
C26_Witness ==
    /\ MergeDone
    /\ \E p \in Indices(mg_out.rows) :
          /\ mg_out.rows[p].final_rank # PrevRank(mg_out.rows[p])
          /\ mg_out.rows[p].adp_error # 0
          /\ Len(mg_out.rows) = 3

\* the records of the year of record p had distinct final ranks when joined
YearRanksDistinct(p) ==
    \A q, r \in Indices(mg_out.rows) :
        (SamePartition(p, q) /\ SamePartition(p, r) /\ q # r)
            => PrevRank(mg_out.rows[q]) # PrevRank(mg_out.rows[r])

\* C27: with a year column, the records of a year whose final ranks are
\* distinct keep their final_rank, adp_error and ecr_error, whatever the
\* ranks of the other years
C27_DistinctYearUntouched ==
    (MergeDone /\ YearColumn(mg_adp, mg_ecr, mg_stats) # "none") =>
        \A p \in Indices(mg_out.rows) :
            YearRanksDistinct(p) =>
                /\ mg_out.rows[p].final_rank = PrevRank(mg_out.rows[p])
                /\ mg_out.rows[p].adp_error
                      = mg_out.rows[p].espn_adp - PrevRank(mg_out.rows[p])
                /\ mg_out.rows[p].ecr_error
                      = mg_out.rows[p].ecr_rank - PrevRank(mg_out.rows[p])

(***************************************************************************)
(* compare_adp_vs_ecr: load_csv, join_ecr_adp_final, evaluate_one.         *)
(* A CSV file is [exists, cols, rows]; a data frame is [cols, rows], cols  *)
(* the set of its column names and rows a sequence of records with one     *)
(* field per column.  Besides its columns a row carries its index label    *)
(* ("index", as pandas numbers it, from 0) and, as history, the position   *)
(* of the file row it was read from (ecr_row, adp_row, fin_row).  Names    *)
(* and teams are text (sequences of characters).  The files are the ones   *)
(* the harvesters write: they never have a player_key, key or team_norm    *)
(* column.  The rank correlation of a metric row is not modelled.          *)
(***************************************************************************)
\* str.upper() on one character and on a text
Upper(c) ==
    IF \E i \in 1..26 : LowerLetters[i] = c
    THEN UpperLetters[CHOOSE i \in 1..26 : LowerLetters[i] = c]
    ELSE c

UpperSeq(s) == [ i \in DOMAIN s |-> Upper(s[i]) ]

TeamKC == <<"K", "C">>

TeamNE == <<"N", "E">>

TeamGB == <<"G", "B">>

TeamSF == <<"S", "F">>

TeamDAL == <<"D", "A", "L">>

TeamKansasCity ==
    <<"K","a","n","s","a","s"," ","C","i","t","y"," ","C","h","i","e","f","s">>

\* TEAM_ABBR.get(x, x): a full franchise name becomes its abbreviation, any
\* other text (the abbreviations among them) is returned as it is
TEAM_ABBR(x) == IF x = UpperSeq(TeamKansasCity) THEN TeamKC ELSE x

\* the position as the text that is appended to a key
PosText(posU) ==
    IF posU = "QB" THEN <<"Q", "B">>
    ELSE IF posU = "RB" THEN <<"R", "B">>
    ELSE <<"D", "S", "T">>

\* DataFrame.empty: no columns or no rows
IsEmptyDF(df) == df.cols = {} \/ df.rows = <<>>

Column(df, c) == [ i \in Indices(df.rows) |-> df.rows[i][c] ]

\* df[c] = val: the column is added, or replaced when it exists
SetColumn(frame, c, values) ==
    With2(frame, values, LAMBDA df, val :
        [ cols |-> df.cols \cup {c},
          rows |-> [ i \in Indices(df.rows) |->
                       [ k \in (DOMAIN df.rows[i]) \cup {c} |->
                           IF k = c THEN val[i] ELSE df.rows[i][k] ] ] ])

\* df.rename(columns={old: new})
RenameColumn(frame, old, new) ==
    With(frame, LAMBDA df :
        [ cols |-> (df.cols \ {old}) \cup {new},
          rows |-> [ i \in Indices(df.rows) |->
                       [ k \in ((DOMAIN df.rows[i]) \ {old}) \cup {new} |->
                           IF k = new THEN df.rows[i][old]
                           ELSE df.rows[i][k] ] ] ])

\* df[cs]: the columns cs; the index and the history stay with the rows
Project(frame, cs) ==
    With(frame, LAMBDA df :
        [ cols |-> cs,
          rows |-> [ i \in Indices(df.rows) |->
                       [ k \in cs \cup ((DOMAIN df.rows[i]) \ df.cols) |->
                           df.rows[i][k] ] ] ])

\* a left row and a right row as one row
MergedRow(l, r) ==
    [ k \in (DOMAIN l) \cup (DOMAIN r) |-> IF k \in DOMAIN l THEN l[k] ELSE r[k] ]

\* pd.merge(left, right, on=on, how="inner"): every left row, in order, with
\* every right row, in order, that has the same value in all columns of
\* `on`; the result is numbered again from 0
MergeOn(left_frame, right_frame, on_cols) ==
    With3(left_frame, right_frame, on_cols, LAMBDA left, right, on :
        LET pair(l) ==
                With(SelectSeq(right.rows, LAMBDA r : \A c \in on : r[c] = l[c]),
                     LAMBDA rs : [ k \in Indices(rs) |-> MergedRow(l, rs[k]) ])
        IN  With(FlatMap(pair, left.rows), LAMBDA rows :
                [ cols |-> left.cols \cup right.cols,
                  rows |-> [ i \in Indices(rows) |->
                               [ rows[i] EXCEPT !["index"] = i - 1 ] ] ]))

\* df.dropna(subset=[c])
DropNa(frame, c) ==
    With(frame, LAMBDA df :
        [ cols |-> df.cols,
          rows |-> SelectSeq(df.rows, LAMBDA r : r[c] # NaN) ])

\* pd.read_csv: the rows of the file, numbered from 0
read_csv(file) ==
    [ cols |-> file.cols,
      rows |-> [ i \in Indices(file.rows) |->
                   [ k \in (DOMAIN file.rows[i]) \cup {"index"} |->
                       IF k = "index" THEN i - 1 ELSE file.rows[i][k] ] ] ]

\* headers that match \b(player|name)\b, ignoring case
NameHeaders == {"Player", "Name", "PLAYER NAME"}

TextHasSpace(s) == \E i \in DOMAIN s : IsSpace(s[i])

\* ^[A-Z]{2,4}$
LooksLikeTeamCode(s) == Len(s) \in 2..4 /\ \A i \in DOMAIN s : IsUpper(s[i])

\* _guess_player_name_column: a header that names the player, else the first
\* text column most of whose values have a blank and are not team codes; of
\* the text columns of the model only "team" can hold such values
guess_player_name_column(df) ==
    IF df.cols \cap NameHeaders # {}
    THEN CHOOSE c \in df.cols \cap NameHeaders : TRUE
    ELSE IF /\ "team" \in df.cols
            /\ 10 * Cardinality({ i \in Indices(df.rows) :
                                    TextHasSpace(df.rows[i].team) })
                  > 6 * Len(df.rows)
            /\ ~(10 * Cardinality({ i \in Indices(df.rows) :
                                      LooksLikeTeamCode(df.rows[i].team) })
                  > 6 * Len(df.rows))
         THEN "team"
         ELSE "none"

\* _ensure_player_name_and_key
ensure_player_name_and_key(frame) ==
    With(frame, LAMBDA df :
        With(IF "player_name" \notin df.cols
                /\ guess_player_name_column(df) # "none"
             THEN RenameColumn(df, guess_player_name_column(df), "player_name")
             ELSE df,
             LAMBDA out :
                IF "player_name" \in out.cols /\ "player_key" \notin out.cols
                THEN SetColumn(out, "player_key",
                               [ i \in Indices(out.rows) |->
                                   clean_name(out.rows[i].player_name) ])
                ELSE out))

\* _require_player_key_or_skip: the frame, or an empty one (and a [SKIP]
\* line) when no key can be built
HasPlayerKey(df) == "player_key" \in ensure_player_name_and_key(df).cols

require_player_key_or_skip(frame) ==
    With(ensure_player_name_and_key(frame), LAMBDA df :
        IF "player_key" \in df.cols THEN df ELSE EmptyDF)

load_csv(file) ==
    IF ~file.exists THEN EmptyDF
    ELSE With(ensure_player_name_and_key(read_csv(file)), LAMBDA df :
            With(IF "pos_slug" \in df.cols
                 THEN SetColumn(df, "pos_slug",
                                [ i \in Indices(df.rows) |->
                                    PosUpper(df.rows[i].pos_slug) ])
                 ELSE df,
                 LAMBDA up :
                    IF "team" \in up.cols /\ "team_norm" \notin up.cols
                    THEN SetColumn(up, "team_norm",
                                   [ i \in Indices(up.rows) |->
                                       TEAM_ABBR(UpperSeq(up.rows[i].team)) ])
                    ELSE up))

\* Series.rank(method="min", ascending=True)
RankMinAsc(val, i) ==
    IF val[i] = NaN THEN NaN
    ELSE 1 + Cardinality({ j \in DOMAIN val : val[j] # NaN /\ val[j] < val[i] })

ensure_ecr_rank(frame) ==
    With(frame, LAMBDA df :
        IF "ecr_rank" \in df.cols
           /\ \E i \in Indices(df.rows) : df.rows[i].ecr_rank # NaN
        THEN df
        ELSE IF "ecr" \in df.cols
             THEN SetColumn(df, "ecr_rank",
                            [ i \in Indices(df.rows) |->
                                RankMinAsc(Column(df, "ecr"), i) ])
        ELSE IF "rk" \in df.cols
             THEN SetColumn(df, "ecr_rank", Column(df, "rk"))
        ELSE SetColumn(df, "ecr_rank", [ i \in Indices(df.rows) |-> i ]))

\* col + "_rank"
RankColumnOf(col) ==
    IF col = "adp_espn" THEN "adp_espn_rank"
    ELSE IF col = "adp_yahoo" THEN "adp_yahoo_rank"
    ELSE "adp_avg_rank"

AddRankColumn(frame, col) ==
    With(frame, LAMBDA df :
        IF col \in df.cols
        THEN SetColumn(df, RankColumnOf(col),
                       [ i \in Indices(df.rows) |->
                           RankMinAsc(Column(df, col), i) ])
        ELSE df)

add_adp_ranks(df) ==
    AddRankColumn(AddRankColumn(AddRankColumn(df, "adp_espn"), "adp_yahoo"),
                  "adp_avg")

\* the performance frame as final_ranks_from_stats reads it
StatsTable(frame) ==
    With(frame, LAMBDA df :
        [ has_points |-> "fantasy_points" \in df.cols,
          pos_col |-> IF "pos_slug" \in df.cols THEN "pos_slug"
                      ELSE IF "pos" \in df.cols THEN "pos" ELSE "none",
          rows |-> [ i \in Indices(df.rows) |->
                       [ pos |-> IF "pos_slug" \in df.cols
                                 THEN df.rows[i].pos_slug
                                 ELSE IF "pos" \in df.cols THEN df.rows[i].pos
                                 ELSE "none",
                         fantasy_points |->
                             IF "fantasy_points" \in df.cols
                             THEN df.rows[i].fantasy_points ELSE NaN ] ] ])

EcrKeyColumns(df) ==
    {"key", "ecr_rank", "player_name"}
        \cup (IF "team_norm" \in df.cols THEN {"team_norm"} ELSE {})

AdpKeyColumns(df) ==
    {"key", "adp_espn", "adp_yahoo", "adp_avg",
     "adp_espn_rank", "adp_yahoo_rank", "adp_avg_rank", "player_name"}
        \cup (IF "team_norm" \in df.cols THEN {"team_norm"} ELSE {})

FinKeyColumns == {"key", "fantasy_points", "final_pos_rank"}

KeepColumns ==
    {"season", "scoring", "pos_slug", "player_name", "team_norm", "ecr_rank",
     "adp_espn", "adp_yahoo", "adp_avg",
     "adp_espn_rank", "adp_yahoo_rank", "adp_avg_rank",
     "fantasy_points", "final_pos_rank"}

\* the columns the DST branch selects before it renames team_norm to key
DstEcrColumns == {"team_norm", "ecr_rank", "player_key", "player_name"}

DstAdpColumns ==
    {"team_norm", "adp_espn", "adp_yahoo", "adp_avg",
     "adp_espn_rank", "adp_yahoo_rank", "adp_avg_rank",
     "player_key", "player_name"}

DstFinColumns == {"team_norm", "fantasy_points", "final_pos_rank"}

\* df["key"] = df["player_key"] + "|" + posU
WithKey(frame, posU) ==
    With(frame, LAMBDA df :
        SetColumn(df, "key",
                  [ i \in Indices(df.rows) |->
                      df.rows[i].player_key \o <<"|">> \o PosText(posU) ]))

\* lines 228-233: the context columns, the columns kept, the rows with a
\* final rank
KeepJoined(year, scoring, posU, merged) ==
    With(merged, LAMBDA df :
        With(SetColumn(SetColumn(SetColumn(df,
                 "season", [ i \in Indices(df.rows) |-> year ]),
                 "scoring", [ i \in Indices(df.rows) |-> scoring ]),
                 "pos_slug", [ i \in Indices(df.rows) |-> posU ]),
             LAMBDA out :
                DropNa(Project(out, KeepColumns \cap out.cols),
                       "final_pos_rank")))

\* lines 207-233: the column selection, the two merges, the context columns
SelectAndMerge(year, scoring, posU, ecr_frame, adp_frame, fin_frame, skips) ==
    With3(ecr_frame, adp_frame, fin_frame, LAMBDA ecr, adp, fin :
        IF ~(/\ EcrKeyColumns(ecr) \subseteq ecr.cols
             /\ AdpKeyColumns(adp) \subseteq adp.cols
             /\ FinKeyColumns \subseteq fin.cols)
        THEN JoinResult("KeyError", EmptyDF, skips)
        ELSE With3(Project(ecr, EcrKeyColumns(ecr)),
                   Project(adp, AdpKeyColumns(adp)),
                   Project(fin, FinKeyColumns),
                   LAMBDA ecr_key, adp_key, fin_key :
                      With(MergeOn(ecr_key, adp_key,
                                   ecr_key.cols \cap adp_key.cols),
                           LAMBDA df :
                              JoinResult("ok",
                                  KeepJoined(year, scoring, posU,
                                      MergeOn(df, fin_key,
                                              df.cols \cap fin_key.cols)),
                                  skips))))

\* lines 189-205: the ranks are added; a DST partition selects its columns
\* by team_norm, any other gets its key
RankAndMerge(year, scoring, posU, ecr1, adp1, fin1, skips) ==
    With3(ensure_ecr_rank(ecr1), add_adp_ranks(adp1),
          final_ranks_from_stats(StatsTable(fin1)),
          LAMBDA ecr, adp, ranked :
             IF ranked.status # "ok"
             THEN JoinResult(ranked.status, EmptyDF, skips)
             ELSE With(SetColumn(
                           SetColumn(fin1, "pos_slug",
                               [ i \in Indices(ranked.rows) |->
                                   ranked.rows[i].pos_slug ]),
                           "final_pos_rank",
                           [ i \in Indices(ranked.rows) |->
                               ranked.rows[i].final_pos_rank ]),
                       LAMBDA fin :
                          IF posU = "DST"
                          THEN IF ~(/\ DstEcrColumns \subseteq ecr.cols
                                    /\ DstAdpColumns \subseteq adp.cols
                                    /\ DstFinColumns \subseteq fin.cols)
                               THEN JoinResult("KeyError", EmptyDF, skips)
                               ELSE SelectAndMerge(year, scoring, posU,
                                                   ecr, adp, fin, skips)
                          ELSE SelectAndMerge(year, scoring, posU,
                                              WithKey(ecr, posU),
                                              WithKey(adp, posU),
                                              WithKey(fin, posU), skips)))

\* the [SKIP] lines of _require_player_key_or_skip, by the file they name
SkipLines(ecr0, adp0, fin0) ==
    (IF HasPlayerKey(ecr0) THEN <<>> ELSE <<"ECR">>)
        \o (IF HasPlayerKey(adp0) THEN <<>> ELSE <<"ADP">>)
        \o (IF HasPlayerKey(fin0) THEN <<>> ELSE <<"STATS">>)

join_ecr_adp_final(year, scoring, pos, ecr_file, adp_file, fin_file) ==
    With3(load_csv(ecr_file), load_csv(adp_file), load_csv(fin_file),
          LAMBDA ecr0, adp0, fin0 :
             With3(require_player_key_or_skip(ecr0),
                   require_player_key_or_skip(adp0),
                   require_player_key_or_skip(fin0),
                   LAMBDA ecr, adp, fin :
                      With(SkipLines(ecr0, adp0, fin0), LAMBDA skips :
                          IF IsEmptyDF(ecr) \/ IsEmptyDF(adp) \/ IsEmptyDF(fin)
                          THEN JoinResult("ok", EmptyDF, skips)
                          ELSE RankAndMerge(year, scoring, PosUpper(pos),
                                            ecr, adp, fin, skips))))

\* preds of evaluate_one, in the order of the dict
PredictorColumns ==
    << [model |-> "ECR",       col |-> "ecr_rank"],
       [model |-> "ADP_ESPN",  col |-> "adp_espn_rank"],
       [model |-> "ADP_YAHOO", col |-> "adp_yahoo_rank"],
       [model |-> "ADP_AVG",   col |-> "adp_avg_rank"] >>

\* sort_values uses quicksort, which does not fix the order of equal values:
\* `tie` says whether the earlier ("first") or the later ("last") of two
\* equal rows comes out first
TieOrders == {"first", "last"}

TieBefore(tie, j, i) == IF tie = "first" THEN j < i ELSE j > i

\* a sort that puts the largest value first
SortPosDescending(val, tie, i) ==
    1 + Cardinality({ j \in DOMAIN val :
                        \/ KeyLess(val[i], val[j])
                        \/ /\ ~KeyLess(val[i], val[j])
                           /\ ~KeyLess(val[j], val[i])
                           /\ TieBefore(tie, j, i) })

\* the position of row i in df.sort_values(col, ascending=True): smaller
\* values first, missing values last
SortPos(val, tie, i) ==
    1 + Cardinality({ j \in DOMAIN val :
                        \/ KeyLess(val[j], val[i])
                        \/ /\ ~KeyLess(val[i], val[j])
                           /\ ~KeyLess(val[j], val[i])
                           /\ TieBefore(tie, j, i) })

\* set(df.sort_values(col).head(topX).index)
TopLabels(df, col, topX, tie) ==
    { df.rows[i]["index"] :
        i \in { k \in Indices(df.rows) :
                  SortPos(Column(df, col), tie, k) <= topX } }

\* a sample size that counts the rows where the predictor has a value
SampleSizeNonMissing(df, col) ==
    Cardinality({ i \in Indices(df.rows) : df.rows[i][col] # NaN })

\* "n_players": len(df)
SampleSize(df, col) == Len(df.rows)

Abs(x) == IF x < 0 THEN 0 - x ELSE x

RECURSIVE SumOver(_, _)
SumOver(f, S) ==
    IF S = {} THEN 0
    ELSE LET i == CHOOSE k \in S : TRUE IN f[i] + SumOver(f, S \ {i})

\* one row of the metrics table.  A quotient is kept as <<numerator,
\* denominator>>: hit_rate_topX = hits / topX, mae_rank = the mean of |err|
\* and mse_rank (rmse_rank squared) the mean of err^2 over the rows where
\* err is not missing.
MetricRow(df, posU, topX, pred, ties) ==
    LET rows == Indices(df.rows)
        valid == { i \in rows : /\ df.rows[i][pred.col] # NaN
                                /\ df.rows[i].final_pos_rank # NaN }
        err == [ i \in rows |->
                   IF i \in valid
                   THEN df.rows[i][pred.col] - df.rows[i].final_pos_rank
                   ELSE NaN ]
        pred_top == TopLabels(df, pred.col, topX, ties.pred)
        final_top == TopLabels(df, "final_pos_rank", topX, ties.final)
        hits == Cardinality(pred_top \cap final_top)
    IN  [ season |-> df.rows[1].season,
          scoring |-> df.rows[1].scoring,
          pos_slug |-> posU,
          model |-> pred.model,
          mae_rank |-> <<SumOver([ i \in rows |-> Abs(err[i]) ], valid),
                         Cardinality(valid)>>,
          mse_rank |-> <<SumOver([ i \in rows |-> err[i] * err[i] ], valid),
                         Cardinality(valid)>>,
          topX |-> topX,
          hit_rate_topX |-> <<hits, topX>>,
          n_players |-> SampleSize(df, pred.col) ]

evaluate_one(df, posU, topX_map, ties) ==
    IF IsEmptyDF(df) THEN Result("ok", <<>>)
    ELSE IF ~({"ecr_rank", "final_pos_rank", "season", "scoring"}
                 \subseteq df.cols)
         THEN Result("KeyError", <<>>)
    ELSE LET preds == SelectSeq(PredictorColumns,
                                LAMBDA p : p.model = "ECR" \/ p.col \in df.cols)
             topX == IF posU \in DOMAIN topX_map THEN topX_map[posU]
                     ELSE DefaultTopX
         IN  Result("ok",
                    [ k \in Indices(preds) |->
                        MetricRow(df, posU, topX, preds[k], ties) ])

(***************************************************************************)
(* One partition of main: join_ecr_adp_final, then evaluate_one on a       *)
(* joined frame that is not empty.                                         *)
(***************************************************************************)
MaxRoster == 3

AdpValues == {1, 2, NaN}

NameAJ == <<"A", "J">>

NameAJDots == <<"A", ".", "J", ".">>

NameBo == <<"B", "o">>

\* players of a roster: names with different keys, each with a team
RosterPlayers ==
    << [player_name |-> NameBo,               team |-> TeamKC],
       [player_name |-> NameAJ,               team |-> TeamNE],
       [player_name |-> <<"C", "y">>,         team |-> TeamGB],
       [player_name |-> <<"D", "e", "e">>,    team |-> TeamSF],
       [player_name |-> <<"E", "d">>,         team |-> TeamDAL] >>

\* the top-X maps evaluate_one is called with: the default, one with small
\* entries, one that has no entry for the positions of the model
TopXMaps == { TOPX_DEFAULTS, [QB |-> 2, DST |-> 2], [RB |-> 2] }

Partitions == [ year : {FirstSeason}, scoring : {"ppr"}, pos : {"qb", "dst"} ]

\* a file row: the fields of the columns the file has, and its position
FileRow(cols, tag, i, full) ==
    [ k \in cols \cup {tag} |-> IF k = tag THEN i ELSE full[k] ]

CsvFile(cols, tag, rows) ==
    [ exists |-> TRUE, cols |-> cols,
      rows |-> [ i \in Indices(rows) |-> FileRow(cols, tag, i, rows[i]) ] ]

TeamColumn(with_team) == IF with_team THEN {"team"} ELSE {}

\* inputs of the first kind: the same n players in the three files, all the
\* columns the harvesters can write (the team in the files of DST only); a
\* consensus file lists the players in rank order, Yahoo has no value for
\* anyone, the average draft position runs against the consensus rank
RosterFiles ==
    \E n \in 0..MaxRoster :
      \E vals \in [ 1..n -> [ adp_espn : AdpValues,
                              fantasy_points : Scores \cup {NaN} ] ] :
        LET with_team == jn_part.pos = "dst" IN
          /\ jn_ecr = CsvFile({"player_name", "ecr_rank"} \cup TeamColumn(with_team),
                "ecr_row",
                [ i \in 1..n |-> [ player_name |-> RosterPlayers[i].player_name,
                                   team |-> RosterPlayers[i].team,
                                   ecr_rank |-> i ] ])
          /\ jn_adp = CsvFile({"player_name", "adp_espn", "adp_yahoo", "adp_avg"}
                                  \cup TeamColumn(with_team),
                "adp_row",
                [ i \in 1..n |-> [ player_name |-> RosterPlayers[i].player_name,
                                   team |-> RosterPlayers[i].team,
                                   adp_espn |-> vals[i].adp_espn,
                                   adp_yahoo |-> NaN,
                                   adp_avg |-> n + 1 - i ] ])
          /\ jn_fin = CsvFile({"player_name", "fantasy_points", "pos_slug"}
                                  \cup TeamColumn(with_team),
                "fin_row",
                [ i \in 1..n |-> [ player_name |-> RosterPlayers[i].player_name,
                                   team |-> RosterPlayers[i].team,
                                   fantasy_points |-> vals[i].fantasy_points,
                                   pos_slug |-> PosUpper(jn_part.pos) ] ])

EcrColumnSets ==
    { {"ecr_rank"}, {"ecr_rank", "team"},
      {"player_name", "ecr_rank"}, {"player_name", "ecr_rank", "team"} }

AdpColumnSets ==
    { {"adp_espn", "adp_yahoo", "adp_avg"},
      {"player_name"},
      {"player_name", "adp_espn", "adp_avg"},
      {"player_name", "adp_espn", "adp_avg", "team"},
      {"player_name", "adp_espn", "adp_yahoo", "adp_avg"},
      {"player_name", "adp_espn", "adp_yahoo", "adp_avg", "team"} }

FinColumnSets ==
    { {"fantasy_points", "pos_slug"},
      {"player_name", "pos_slug"},
      {"player_name", "fantasy_points", "pos_slug"},
      {"player_name", "fantasy_points", "pos_slug", "team"} }

\* inputs of the second kind: files of one row, or no file, with any of the
\* column sets above; the name is written in different ways and the team as
\* an abbreviation or in full
SingleRowFiles ==
    /\ jn_ecr \in {MissingFile} \cup
          { CsvFile(cols, "ecr_row",
                    << [ player_name |-> name, team |-> team, ecr_rank |-> 1 ] >>) :
              cols \in EcrColumnSets,
              name \in {NameAJ, NameAJDots, NameBo},
              team \in {TeamKC, TeamKansasCity, TeamNE} }
    /\ jn_adp \in {MissingFile} \cup
          { CsvFile(cols, "adp_row",
                    << [ player_name |-> name, team |-> TeamKC,
                         adp_espn |-> 1, adp_yahoo |-> 1, adp_avg |-> 1 ] >>) :
              cols \in AdpColumnSets, name \in {NameAJ, NameBo} }
    /\ jn_fin \in {MissingFile} \cup
          { CsvFile(cols, "fin_row",
                    << [ player_name |-> name, team |-> TeamKC,
                         fantasy_points |-> 1,
                         pos_slug |-> PosUpper(jn_part.pos) ] >>) :
              cols \in FinColumnSets, name \in {NameAJ, NameAJDots} }

JoinInit ==
    /\ RunIdle
    /\ FetchIdle
    /\ HarvestIdle
    /\ ReportIdle
    /\ PickIdle
    /\ ResolveIdle
    /\ NormalizeIdle
    /\ CoerceIdle
    /\ EnsureIdle
    /\ SeasonIdle
    /\ EmitIdle
    /\ KeyIdle
    /\ RankIdle
    /\ MergeIdle
    /\ jn_part \in Partitions
    /\ RosterFiles \/ SingleRowFiles
    /\ jn_merged = JoinResult("pending", EmptyDF, <<>>)
    /\ jn_topx = TOPX_DEFAULTS
    /\ jn_metrics = Result("pending", <<>>)

JoinEcrAdpFinal ==
    /\ jn_merged.status = "pending"
    /\ jn_merged' = join_ecr_adp_final(jn_part.year, jn_part.scoring,
                                       jn_part.pos, jn_ecr, jn_adp, jn_fin)
    /\ UNCHANGED <<jn_part, jn_ecr, jn_adp, jn_fin, jn_topx, jn_metrics,
                   notJoinVars>>

\* evaluate_one(merged, p.upper()), called when merged is not empty
EvaluateOne ==
    /\ jn_merged.status = "ok"
    /\ ~IsEmptyDF(jn_merged.df)
    /\ jn_metrics.status = "pending"
    /\ \E topX_map \in TopXMaps :
         \E tp, tf \in TieOrders :
            /\ jn_topx' = topX_map
            /\ jn_metrics' = evaluate_one(jn_merged.df, PosUpper(jn_part.pos),
                                          topX_map,
                                          [pred |-> tp, final |-> tf])
    /\ UNCHANGED <<jn_part, jn_ecr, jn_adp, jn_fin, jn_merged, notJoinVars>>

JoinNext == JoinEcrAdpFinal \/ EvaluateOne

SpecJoin == JoinInit /\ [][JoinNext]_vars

JoinDone == jn_merged.status \notin {"idle", "pending"}

JoinOk == jn_merged.status = "ok"

EvalDone == jn_metrics.status = "ok"

\* the three files exist and each has a player_name column
FilesHaveNames ==
    /\ jn_ecr.exists /\ "player_name" \in jn_ecr.cols
    /\ jn_adp.exists /\ "player_name" \in jn_adp.cols
    /\ jn_fin.exists /\ "player_name" \in jn_fin.cols

\* the three files exist, have rows, and each has a team column
FilesHaveTeams ==
    /\ jn_ecr.exists /\ jn_ecr.rows # <<>> /\ "team" \in jn_ecr.cols
    /\ jn_adp.exists /\ jn_adp.rows # <<>> /\ "team" \in jn_adp.cols
    /\ jn_fin.exists /\ jn_fin.rows # <<>> /\ "team" \in jn_fin.cols

AdpPredictors == {"adp_espn", "adp_yahoo", "adp_avg"}

\* the join key of row i of a file that has names: player_key + "|" + posU
FileKey(file, i) ==
    clean_name(file.rows[i].player_name)
        \o <<"|">> \o PosText(PosUpper(jn_part.pos))

\* the normalized team of row i of a file that has a team column
FileTeamNorm(file, i) == TEAM_ABBR(UpperSeq(file.rows[i].team))

\* rows e, a, f of the three files were joined into one record
JoinedTriple(e, a, f) ==
    \E m \in Indices(jn_merged.df.rows) :
        /\ jn_merged.df.rows[m].ecr_row = e
        /\ jn_merged.df.rows[m].adp_row = a
        /\ jn_merged.df.rows[m].fin_row = f

\* the rows of the performance file that have points (the others have no
\* final_pos_rank and are dropped after the join)
ScoredFinRows ==
    { f \in Indices(jn_fin.rows) : jn_fin.rows[f].fantasy_points # NaN }

\* C5: for a non-DST position a consensus row, a draft-position row and a
\* performance row are joined into one record if and only if their derived
\* join keys (player_key plus position) are equal; nothing else decides.
C5_KeyAloneDecides ==
    (JoinOk /\ jn_part.pos # "dst" /\ FilesHaveNames) =>
        \A e \in Indices(jn_ecr.rows), a \in Indices(jn_adp.rows),
           f \in ScoredFinRows :
            JoinedTriple(e, a, f)
                <=> /\ FileKey(jn_ecr, e) = FileKey(jn_adp, a)
                    /\ FileKey(jn_adp, a) = FileKey(jn_fin, f)

\* C6: for a DST partition whose three files are non-empty and have a team
\* column (and, here, names, points and all predictor columns as well),
\* join_ecr_adp_final raises no error and joins the rows whose normalized
\* team abbreviations are equal.
C6_DstJoinsOnTeam ==
    (/\ JoinDone
     /\ jn_part.pos = "dst"
     /\ FilesHaveTeams
     /\ FilesHaveNames
     /\ AdpPredictors \subseteq jn_adp.cols
     /\ "fantasy_points" \in jn_fin.cols) =>
        /\ jn_merged.status = "ok"
        /\ \A e \in Indices(jn_ecr.rows), a \in Indices(jn_adp.rows),
              f \in ScoredFinRows :
                JoinedTriple(e, a, f)
                    <=> /\ FileTeamNorm(jn_ecr, e) = FileTeamNorm(jn_adp, a)
                        /\ FileTeamNorm(jn_adp, a) = FileTeamNorm(jn_fin, f)

\* the model names of the metric rows
MetricModels == { jn_metrics.rows[k].model : k \in Indices(jn_metrics.rows) }

\* C7: when the draft-position file has only some of the predictor columns,
\* join_ecr_adp_final followed by evaluate_one still gives one metric row
\* for ECR and one for each predictor that is present.
C7_PartialPredictors ==
    (/\ JoinDone
     /\ jn_part.pos # "dst"
     /\ FilesHaveNames
     /\ "fantasy_points" \in jn_fin.cols
     /\ AdpPredictors \cap jn_adp.cols \notin {{}, AdpPredictors}) =>
        /\ jn_merged.status = "ok"
        /\ EvalDone =>
              /\ Len(jn_metrics.rows) = Cardinality(MetricModels)
              /\ MetricModels =
                    {"ECR"} \cup
                    { PredictorColumns[k].model :
                        k \in { j \in Indices(PredictorColumns) :
                                  PredictorColumns[j].col \in
                                      { RankColumnOf(c) :
                                          c \in AdpPredictors \cap jn_adp.cols } } }

\* the rank column of the predictor of a metric row
PredictorColumnOf(model) ==
    (CHOOSE p \in { PredictorColumns[k] : k \in Indices(PredictorColumns) } :
        p.model = model).col

MergedRows == Indices(jn_merged.df.rows)

\* the sets of K joined records (by position; all records when there are
\* fewer than K) with the smallest values of col, a missing value counting
\* as the largest
TopKSets(col, K) ==
    { S \in SUBSET MergedRows :
        /\ Cardinality(S) = IF K < Len(jn_merged.df.rows) THEN K
                            ELSE Len(jn_merged.df.rows)
        /\ \A x \in S, y \in MergedRows \ S :
              ~KeyLess(jn_merged.df.rows[y][col], jn_merged.df.rows[x][col]) }

\* the K evaluate_one has to use
TopXOfPartition ==
    IF PosUpper(jn_part.pos) \in DOMAIN jn_topx
    THEN jn_topx[PosUpper(jn_part.pos)]
    ELSE DefaultTopX

\* C9: the hit rate of every predictor is |P \cap A| / K, P a set of the K
\* records with the smallest predictor rank, A a set of the K records with
\* the smallest performance rank, K the entry of the position in the top-X
\* map, 12 when it has none.
C9_HitRateIsOverlap ==
    EvalDone =>
        \A k \in Indices(jn_metrics.rows) :
            /\ jn_metrics.rows[k].topX = TopXOfPartition
            /\ \E P \in TopKSets(PredictorColumnOf(jn_metrics.rows[k].model),
                                  TopXOfPartition) :
                  \E A \in TopKSets("final_pos_rank", TopXOfPartition) :
                      jn_metrics.rows[k].hit_rate_topX =
                          <<Cardinality(P \cap A), TopXOfPartition>>

\* K = 2 and three joined records X, Y, Z: ECR ranks them 1, 2, 3, so
\* P = {X, Y}; X finished last, so A = {Y, Z}; the hit rate of ECR is 1/2
C9_Witness ==
    /\ EvalDone
    /\ TopXOfPartition = 2
    /\ Len(jn_merged.df.rows) = 3
    /\ jn_merged.df.rows[1].ecr_rank = 1
    /\ jn_merged.df.rows[2].ecr_rank = 2
    /\ jn_merged.df.rows[1].final_pos_rank = 3
    /\ jn_metrics.rows[1].model = "ECR"
    /\ jn_metrics.rows[1].hit_rate_topX = <<1, 2>>

\* the predictor of a metric row ranks every joined record as it finished
RanksIdentical(model) ==
    \A i \in MergedRows :
        /\ jn_merged.df.rows[i][PredictorColumnOf(model)] # NaN
        /\ jn_merged.df.rows[i][PredictorColumnOf(model)]
              = jn_merged.df.rows[i].final_pos_rank

\* C30: the hit rate of every predictor is between 0 and 1, and it is 1 for
\* a predictor whose ranks are the performance ranks on every joined
\* record, however few the records
C30_HitRateRange ==
    EvalDone =>
        \A k \in Indices(jn_metrics.rows) :
            /\ jn_metrics.rows[k].hit_rate_topX[2] > 0
            /\ jn_metrics.rows[k].hit_rate_topX[1] >= 0
            /\ jn_metrics.rows[k].hit_rate_topX[1]
                  <= jn_metrics.rows[k].hit_rate_topX[2]
            /\ RanksIdentical(jn_metrics.rows[k].model)
                  => jn_metrics.rows[k].hit_rate_topX[1]
                        = jn_metrics.rows[k].hit_rate_topX[2]

\* the lines one run of the body of main's loop prints, by their tag: the
\* [SKIP] lines of _require_player_key_or_skip, then [SKIP] (no merged
\* rows), [OK], or [ERR] when the join or the evaluation raises; no line
\* when evaluate_one returns an empty table
main_lines(merged, metrics) ==
    [ i \in Indices(merged.skips) |-> "SKIP" ]
        \o (IF merged.status # "ok" THEN <<"ERR">>
            ELSE IF IsEmptyDF(merged.df) THEN <<"SKIP">>
            ELSE IF metrics.status # "ok" THEN <<"ERR">>
            ELSE IF metrics.rows = <<>> THEN <<>>
            ELSE <<"OK">>)

\* the body of main's loop has run to its end for the partition
BodyDone ==
    /\ JoinDone
    /\ \/ jn_merged.status # "ok"
       \/ IsEmptyDF(jn_merged.df)
       \/ jn_metrics.status \notin {"idle", "pending"}

\* C11: a partition whose body has run has printed exactly one status line,
\* whichever files are missing and whichever step has failed
C11_OneStatusLine ==
    BodyDone => Len(main_lines(jn_merged, jn_metrics)) = 1

(***************************************************************************)
(* The loops over partitions: harvest_stats, harvest_adp, harvest_ecr and  *)
(* main of compare_adp_vs_ecr.  Each is three nested for loops over years, *)
(* scorings and positions whose body is one try block.  An action is one   *)
(* run of the body; what the fetch, the extraction and the write do is the *)
(* environment's choice among the ways the body can end.  Every request    *)
(* has a timeout and a bounded number of retries and every sleep is        *)
(* bounded, so a body that has started ends.                               *)
(***************************************************************************)
MaxRunYears == 2

MaxRunPositions == 2

FirstStatsSeason == 2002

RunKinds == {"harvest_stats", "harvest_adp", "harvest_ecr", "main"}

\* YEARS of the script, cut to its first n years
YearsOf(kind, n) ==
    [ i \in 1..n |->
        (IF kind = "harvest_stats" THEN FirstStatsSeason ELSE FirstSeason)
            + i - 1 ]

\* SCORINGS of the script
ScoringsOf(kind) ==
    IF kind = "main" THEN <<"ppr", "half">> ELSE <<"PPR", "HALF">>

\* POSITIONS of the script (the default of harvest_ecr), cut to n positions
PositionsOf(kind, n) ==
    SubSeq(IF kind \in {"harvest_adp", "harvest_ecr"}
           THEN <<"overall", "qb", "rb", "wr", "te", "k", "dst">>
           ELSE <<"qb", "rb", "wr", "te", "k", "dst">>,
           1, n)

\* the partition the loop variables stand at
PartitionAt(at) ==
    <<run_years[at.y], run_scorings[at.s], run_positions[at.p]>>

\* the for loops step: the innermost range first, an outer one when the
\* inner ranges are used up
HasNext(at) ==
    \/ at.p < Len(run_positions)
    \/ at.s < Len(run_scorings)
    \/ at.y < Len(run_years)

NextAt(at) ==
    IF at.p < Len(run_positions) THEN [at EXCEPT !.p = at.p + 1]
    ELSE IF at.s < Len(run_scorings) THEN [at EXCEPT !.s = at.s + 1, !.p = 1]
    ELSE IF at.y < Len(run_years) THEN [y |-> at.y + 1, s |-> 1, p |-> 1]
    ELSE at

\* how the steps of a body can end
FetchResults == {"raises", "empty", "table"}

WriteResults == {"raises", "written"}

\* harvest_stats: scrape_stats, then to_csv
StatsStatus(fetch, write) ==
    IF fetch = "raises" THEN "ERR"
    ELSE IF fetch = "empty" THEN "MISS"
    ELSE IF write = "raises" THEN "ERR"
    ELSE "OK"

PageResults == {"raises", "login", "page"}

\* harvest_adp: sess.get, then read_tables and pick_adp_table, then
\* normalize_adp_df and to_csv
AdpStatus(page, fetch, write) ==
    IF page = "raises" THEN "ERR"
    ELSE IF page = "login" THEN "MISS"
    ELSE IF fetch = "raises" THEN "ERR"
    ELSE IF fetch = "empty" THEN "MISS"
    ELSE IF write = "raises" THEN "ERR"
    ELSE "OK"

\* harvest_ecr: fetch_ecr, then normalize_ecr_df, the filter and to_csv
EcrStatus(fetch, write) ==
    IF fetch = "raises" THEN "ERR"
    ELSE IF fetch = "empty" THEN "MISS"
    ELSE IF write = "raises" THEN "ERR"
    ELSE "OK"

JoinResults == {"raises", "empty", "rows"}

EvalResults == {"raises", "metrics"}

\* main: join_ecr_adp_final, then evaluate_one and to_csv
MainStatus(joined, eval) ==
    IF joined = "raises" THEN "ERR"
    ELSE IF joined = "empty" THEN "SKIP"
    ELSE IF eval = "raises" THEN "ERR"
    ELSE "OK"

\* a loop whose except clause lets the exception go on
AfterBodyReraising(status, more) ==
    IF status = "ERR" THEN "aborted"
    ELSE IF more THEN "running" ELSE "looped"

\* where the run is after a body has ended with `status`: the except clause
\* prints a line and the loop goes on, `more` saying whether a partition is
\* left
AfterBody(status, more) == IF more THEN "running" ELSE "looped"

\* one run of the loop body, ending with `status`
Iterate(status) ==
    /\ run_attempted' = Append(run_attempted, PartitionAt(run_at))
    /\ run_errs' = run_errs + (IF status = "ERR" THEN 1 ELSE 0)
    /\ run_last' = status
    /\ run_at' = NextAt(run_at)
    /\ run_state' = AfterBody(status, HasNext(run_at))
    /\ UNCHANGED <<run_kind, run_years, run_scorings, run_positions>>
    /\ UNCHANGED notRunVars

RunInit ==
    /\ KeyIdle
    /\ RankIdle
    /\ MergeIdle
    /\ JoinIdle
    /\ FetchIdle
    /\ HarvestIdle
    /\ ReportIdle
    /\ PickIdle
    /\ ResolveIdle
    /\ NormalizeIdle
    /\ CoerceIdle
    /\ EnsureIdle
    /\ SeasonIdle
    /\ EmitIdle
    /\ run_kind \in RunKinds
    /\ \E n \in 1..MaxRunYears : run_years = YearsOf(run_kind, n)
    /\ run_scorings = ScoringsOf(run_kind)
    /\ \E n \in 1..MaxRunPositions : run_positions = PositionsOf(run_kind, n)
    /\ run_at = [y |-> 1, s |-> 1, p |-> 1]
    /\ run_attempted = <<>>
    /\ run_errs = 0
    /\ run_last = "none"
    /\ run_state = "running"

HarvestStats ==
    /\ run_kind = "harvest_stats"
    /\ run_state = "running"
    /\ \E fetch \in FetchResults, write \in WriteResults :
          Iterate(StatsStatus(fetch, write))

HarvestAdp ==
    /\ run_kind = "harvest_adp"
    /\ run_state = "running"
    /\ \E page \in PageResults, fetch \in FetchResults, write \in WriteResults :
          Iterate(AdpStatus(page, fetch, write))

HarvestEcr ==
    /\ run_kind = "harvest_ecr"
    /\ run_state = "running"
    /\ \E fetch \in FetchResults, write \in WriteResults :
          Iterate(EcrStatus(fetch, write))

Main ==
    /\ run_kind = "main"
    /\ run_state = "running"
    /\ \E joined \in JoinResults, eval \in EvalResults :
          Iterate(MainStatus(joined, eval))

\* the loops are left: a harvester returns, main writes the metrics table
\* or says that there is none
Finish ==
    /\ run_state = "looped"
    /\ run_state' = "done"
    /\ UNCHANGED <<run_kind, run_years, run_scorings, run_positions, run_at,
                   run_attempted, run_errs, run_last>>
    /\ UNCHANGED notRunVars

RunNext == HarvestStats \/ HarvestAdp \/ HarvestEcr \/ Main \/ Finish

SpecRun == RunInit /\ [][RunNext]_vars

\* a body that has started ends, and so does what follows the loops
SpecRunFair == SpecRun /\ WF_vars(RunNext)

\* every combination of the ranges: the years outermost, the positions
\* innermost
LoopOrder ==
    LET S == Len(run_scorings)
        P == Len(run_positions)
    IN  [ k \in 1..(Len(run_years) * S * P) |->
            << run_years[((k - 1) \div (S * P)) + 1],
               run_scorings[(((k - 1) \div P) % S) + 1],
               run_positions[((k - 1) % P) + 1] >> ]

AttemptedInLoopOrder ==
    /\ Len(run_attempted) <= Len(LoopOrder)
    /\ run_attempted = SubSeq(LoopOrder, 1, Len(run_attempted))

AllAttempted == run_state = "done" /\ run_attempted = LoopOrder

\* C10: in each of the four loops the partitions are attempted in loop
\* order, whatever the earlier ones ended with, and the run comes to its end
\* with every combination of the ranges attempted exactly once
C10_EveryPartitionAttempted == [](AttemptedInLoopOrder) /\ <>AllAttempted

\* a run has ended although a partition that was not its last one failed
C10_Witness ==
    /\ AllAttempted
    /\ Len(run_attempted) >= 4
    /\ run_errs >= 1
    /\ run_last # "ERR"

(***************************************************************************)
(* session_with_retry: one GET through the session both harvesters build.  *)
(* The adapter is mounted with Retry(total=5, status_forcelist=[429, 500,   *)
(* 502, 503, 504]); a step is one request of the GET and what the Retry    *)
(* object decides about its outcome.  requests cannot be imported without  *)
(* urllib3, so Retry is never None.                                        *)
(***************************************************************************)
RetryTotal == 5

\* a status list that holds every 5xx status
StatusForcelistAll5xx == {429} \cup 500..599

status_forcelist == {429, 500, 502, 503, 504}

\* the statuses for which Retry honours a Retry-After header
RETRY_AFTER_STATUS_CODES == {413, 429, 503}

Statuses == {200, 403, 404, 413, 429, 500, 501, 502, 503, 504}

\* what a request can meet: a response, or a connection error or timeout
Outcomes ==
    [ kind : {"response"}, status : Statuses, retry_after : BOOLEAN ]
        \cup { [kind |-> "error", status |-> 0, retry_after |-> FALSE] }

\* Retry.is_retry for a GET
is_retry(o, left) ==
    /\ o.kind = "response"
    /\ \/ o.status \in status_forcelist
       \/ /\ left > 0
          /\ o.retry_after
          /\ o.status \in RETRY_AFTER_STATUS_CODES

FetchInit ==
    /\ KeyIdle
    /\ RankIdle
    /\ MergeIdle
    /\ JoinIdle
    /\ RunIdle
    /\ HarvestIdle
    /\ ReportIdle
    /\ PickIdle
    /\ ResolveIdle
    /\ NormalizeIdle
    /\ CoerceIdle
    /\ EnsureIdle
    /\ SeasonIdle
    /\ EmitIdle
    /\ ft_left = RetryTotal
    /\ ft_sent = 0
    /\ ft_last = [kind |-> "none", status |-> 0, retry_after |-> FALSE]
    /\ ft_state = "sending"

\* one request: a response that is not to be retried is returned; an error
\* or a response to be retried uses up one retry, and raises when none is
\* left
SendRequest ==
    /\ ft_state = "sending"
    /\ \E o \in Outcomes :
          /\ ft_sent' = ft_sent + 1
          /\ ft_last' = o
          /\ IF o.kind = "error" \/ is_retry(o, ft_left)
             THEN IF ft_left > 0
                  THEN ft_left' = ft_left - 1 /\ ft_state' = "sending"
                  ELSE ft_left' = ft_left /\ ft_state' = "raised"
             ELSE ft_left' = ft_left /\ ft_state' = "returned"
    /\ UNCHANGED notFetchVars

FetchNext == SendRequest

SpecFetch == FetchInit /\ [][FetchNext]_vars

\* the last request is being repeated
Resent == ft_state = "sending" /\ ft_sent > 0

\* C12 as stated: a response is retried exactly when its status is 429 or
\* any 5xx, and a GET sends at most 5 retries
C12_RetriesOn429And5xx ==
    /\ ft_sent <= RetryTotal + 1
    /\ Resent /\ ft_last.kind = "response"
          => ft_last.status = 429 \/ ft_last.status \in 500..599
    /\ ft_state = "returned"
          => ~(ft_last.status = 429 \/ ft_last.status \in 500..599)

\* C12 amended: a GET sends at most 5 retries; a response is retried only
\* when its status is 429, 500, 502, 503 or 504, or 413 with a Retry-After
\* header; a response that is returned has none of the five listed
\* statuses, and a GET raises only after its fifth retry
C12_RetriesOnListedStatuses ==
    /\ ft_sent <= RetryTotal + 1
    /\ Resent /\ ft_last.kind = "response"
          => \/ ft_last.status \in {429, 500, 502, 503, 504}
             \/ ft_last.status = 413 /\ ft_last.retry_after
    /\ ft_state = "returned"
          => /\ ft_last.kind = "response"
             /\ ft_last.status \notin {429, 500, 502, 503, 504}
    /\ ft_state = "raised" => ft_sent = RetryTotal + 1

\* a GET that was answered 200 after five retries
C12_Witness ==
    /\ ft_state = "returned"
    /\ ft_sent = RetryTotal + 1
    /\ ft_last.status = 200

(***************************************************************************)
(* The loop bodies of the three harvesters, by what they do: a body is a   *)
(* sequence of events, [ev, tag] with ev one of "sleep", "get" (a request  *)
(* through the session: the page or the export), "extract" (a response     *)
(* body is parsed for tables or rows), "write" (to_csv) and "print" (a     *)
(* status line, tag its text without the partition).  The answers of the   *)
(* site are the environment's: a request raises (a timeout, an exhausted   *)
(* retry) or is answered with a status, a final URL that is the login page *)
(* or not, and a body.                                                     *)
(***************************************************************************)
MaxBodies == 2

Ev(ev, tag) == [ev |-> ev, tag |-> tag]

\* of the tables of a page: there is none, none has the columns the picker
\* looks for, or one has
TableContents == {"none", "nomatch", "match"}

PageAnswers(with_link) ==
    [ result : {"response"}, status : {200, 404}, login : BOOLEAN,
      tables : TableContents, csv_link : with_link ]
        \cup { [result |-> "raises", status |-> 0, login |-> FALSE,
                tables |-> "none", csv_link |-> FALSE] }

NoCsv == [result |-> "none", status |-> 0, content |-> "nothing"]

\* the export: no bytes, a header without rows, rows, or text read_csv
\* cannot parse
CsvAnswers ==
    [ result : {"response"}, status : {200, 404},
      content : {"nothing", "header", "rows", "unparsable"} ]
        \cup { [result |-> "raises", status |-> 0, content |-> "nothing"] }

\* harvest_stats: the sleep, scrape_stats, to_csv
harvest_stats_body(page, write) ==
    <<Ev("sleep", ""), Ev("get", "page")>>
        \o (IF page.result = "raises" THEN <<Ev("print", "[ERR]")>>
            ELSE IF page.login
                 THEN <<Ev("print", "[MISS] no FPTS table or login wall")>>
            ELSE IF page.status >= 400 THEN <<Ev("print", "[ERR]")>>
            ELSE <<Ev("extract", "page")>>
                 \o (IF page.tables = "none" THEN <<Ev("print", "[ERR]")>>
                     ELSE IF page.tables = "nomatch"
                          THEN <<Ev("print",
                                    "[MISS] no FPTS table or login wall")>>
                     ELSE IF write = "raises" THEN <<Ev("print", "[ERR]")>>
                     ELSE <<Ev("write", "file"), Ev("print", "[OK]")>>))

\* harvest_adp: sess.get, read_tables and pick_adp_table, to_csv, the sleep
harvest_adp_body(page, write) ==
    <<Ev("get", "page")>>
        \o (IF page.result = "raises" THEN <<Ev("print", "[ERR]")>>
            ELSE IF page.login THEN <<Ev("print", "[MISS] login wall")>>
            ELSE <<Ev("extract", "page")>>
                 \o (IF page.tables = "none" THEN <<Ev("print", "[ERR]")>>
                     ELSE IF page.tables = "nomatch"
                          THEN <<Ev("print", "[MISS] no ADP table")>>
                     ELSE IF write = "raises" THEN <<Ev("print", "[ERR]")>>
                     ELSE <<Ev("write", "file"), Ev("print", "[OK]"),
                            Ev("sleep", "")>>))

\* the except clause of harvest_ecr prints two lines
EcrError == <<Ev("print", "[ERR]"), Ev("print", "message")>>

\* harvest_ecr once fetch_ecr has returned a table
EcrWrite(write) ==
    IF write = "raises" THEN EcrError
    ELSE <<Ev("write", "file"), Ev("print", "[OK]")>>

\* fetch_ecr falls back to _parse_cheatsheet_table_html
EcrFallback(page, write) ==
    <<Ev("extract", "page")>>
        \o (IF page.tables = "match" THEN EcrWrite(write)
            ELSE <<Ev("print", "[MISS] no table")>>)

\* harvest_ecr: the sleep, fetch_ecr (the page, the export when the page
\* links one, else or after it the tables of the page), to_csv
harvest_ecr_body(page, csv, write) ==
    <<Ev("sleep", ""), Ev("get", "page")>>
        \o (IF page.result = "raises" THEN EcrError
            ELSE IF page.status >= 400 \/ page.login
                 THEN <<Ev("print", "[MISS] no table")>>
            ELSE IF ~page.csv_link THEN EcrFallback(page, write)
            ELSE <<Ev("get", "csv")>>
                 \o (IF csv.result = "raises" THEN EcrError
                     ELSE IF csv.status < 400 /\ csv.content # "nothing"
                          THEN <<Ev("extract", "csv")>>
                               \o (IF csv.content = "unparsable" THEN EcrError
                                   ELSE IF csv.content = "rows"
                                        THEN EcrWrite(write)
                                   ELSE EcrFallback(page, write))
                     ELSE EcrFallback(page, write)))

HarvestInit ==
    /\ KeyIdle
    /\ RankIdle
    /\ MergeIdle
    /\ JoinIdle
    /\ RunIdle
    /\ FetchIdle
    /\ ReportIdle
    /\ PickIdle
    /\ ResolveIdle
    /\ NormalizeIdle
    /\ CoerceIdle
    /\ EnsureIdle
    /\ SeasonIdle
    /\ EmitIdle
    /\ hv_kind \in {"harvest_stats", "harvest_adp", "harvest_ecr"}
    /\ hv_bodies = 0
    /\ hv_page = [result |-> "none", status |-> 0, login |-> FALSE,
                  tables |-> "none", csv_link |-> FALSE]
    /\ hv_csv = NoCsv
    /\ hv_body = <<>>
    /\ hv_events = <<>>

\* one body has run and done `events`
Harvested(page, csv, events) ==
    /\ hv_bodies' = hv_bodies + 1
    /\ hv_page' = page
    /\ hv_csv' = csv
    /\ hv_body' = events
    /\ hv_events' = hv_events \o events
    /\ UNCHANGED hv_kind
    /\ UNCHANGED notHarvestVars

HarvestStatsBody ==
    /\ hv_kind = "harvest_stats"
    /\ hv_bodies < MaxBodies
    /\ \E page \in PageAnswers({FALSE}), write \in WriteResults :
          Harvested(page, NoCsv, harvest_stats_body(page, write))

HarvestAdpBody ==
    /\ hv_kind = "harvest_adp"
    /\ hv_bodies < MaxBodies
    /\ \E page \in PageAnswers({FALSE}), write \in WriteResults :
          Harvested(page, NoCsv, harvest_adp_body(page, write))

HarvestEcrBody ==
    /\ hv_kind = "harvest_ecr"
    /\ hv_bodies < MaxBodies
    /\ \E page \in PageAnswers(BOOLEAN), write \in WriteResults :
          \E csv \in IF page.csv_link THEN CsvAnswers ELSE {NoCsv} :
             Harvested(page, csv, harvest_ecr_body(page, csv, write))

HarvestNext == HarvestStatsBody \/ HarvestAdpBody \/ HarvestEcrBody

SpecHarvest == HarvestInit /\ [][HarvestNext]_vars

\* the events of one kind in a body, and the lines it printed
EventsOf(events, ev) == SelectSeq(events, LAMBDA x : x.ev = ev)

Lines(events) == EventsOf(events, "print")

\* the body a harvester runs for a page, nothing else failing
BodyFor(kind, page) ==
    IF kind = "harvest_stats" THEN harvest_stats_body(page, "written")
    ELSE IF kind = "harvest_adp" THEN harvest_adp_body(page, "written")
    ELSE harvest_ecr_body(page, NoCsv, "written")

\* a page that is the login page, and a page without the table looked for
LoginPage ==
    [result |-> "response", status |-> 200, login |-> TRUE,
     tables |-> "none", csv_link |-> FALSE]

NoTablePage ==
    [result |-> "response", status |-> 200, login |-> FALSE,
     tables |-> "nomatch", csv_link |-> FALSE]

\* C13: a body whose page request ended at the login page has sent no other
\* request, has parsed and written nothing, and has printed one line, which
\* is not the line the harvester prints when it finds no table
C13_LoginWallReported ==
    hv_page.result = "response" /\ hv_page.login
        => /\ Len(EventsOf(hv_body, "get")) = 1
           /\ EventsOf(hv_body, "extract") = <<>>
           /\ EventsOf(hv_body, "write") = <<>>
           /\ Len(Lines(hv_body)) = 1
           /\ Lines(hv_body) # Lines(BodyFor(hv_kind, NoTablePage))

\* C14: a body whose page request was answered with a status of 400 or more
\* has not parsed the page and has written no file
C14_ErrorStatusFailsFetch ==
    hv_page.result = "response" /\ hv_page.status >= 400
        => /\ \A i \in Indices(hv_body) :
                 hv_body[i] # Ev("extract", "page")
           /\ EventsOf(hv_body, "write") = <<>>

\* C15: between two requests of a harvester there is a sleep
C15_DelayBetweenRequests ==
    \A i, j \in Indices(hv_events) :
        i < j /\ hv_events[i].ev = "get" /\ hv_events[j].ev = "get"
            => \E k \in (i + 1)..(j - 1) : hv_events[k].ev = "sleep"

(***************************************************************************)
(* main of compare_adp_vs_ecr, by what it gathers: all_metrics grows by    *)
(* the metric table of every partition that has one, and after the loops   *)
(* the tables are concatenated, sorted and written, or "No metrics         *)
(* produced" is printed.  A metric row is [season, scoring, pos_slug,      *)
(* model]; its figures are left out.                                       *)
(***************************************************************************)
MaxParts == 3

\* partitions in loop order, as evaluate_one names them
ReportPartitions ==
    SubSeq(<< [season |-> FirstSeason,     scoring |-> "ppr",  pos_slug |-> "QB"],
              [season |-> FirstSeason,     scoring |-> "ppr",  pos_slug |-> "RB"],
              [season |-> FirstSeason,     scoring |-> "half", pos_slug |-> "QB"],
              [season |-> FirstSeason,     scoring |-> "half", pos_slug |-> "RB"],
              [season |-> FirstSeason + 1, scoring |-> "ppr",  pos_slug |-> "QB"] >>,
           1, MaxParts)

\* the predictors a partition has metric rows for, in the order of preds
PredictorSets == { <<"ECR">>, <<"ECR", "ADP_ESPN", "ADP_AVG">> }

\* what a partition comes to: no merged rows, an exception before
\* evaluate_one has returned, or a metric table, after which the merged
\* table is written or the write raises
PartResults ==
    [ kind : {"skip", "err"}, models : {<<>>}, audit : {"written"} ]
        \cup [ kind : {"metrics"}, models : PredictorSets,
               audit : WriteResults ]

\* the table evaluate_one returns for a partition
MetTable(part, models) ==
    [ k \in Indices(models) |->
        [ season |-> part.season, scoring |-> part.scoring,
          pos_slug |-> part.pos_slug, model |-> models[k] ] ]

\* pd.concat(all_metrics, ignore_index=True)
RECURSIVE Concat(_)
Concat(tables) ==
    IF tables = <<>> THEN <<>> ELSE Head(tables) \o Concat(Tail(tables))

\* the texts of a metric row in the order Python compares strings
TextOrder ==
    <<"ADP_AVG", "ADP_ESPN", "ADP_YAHOO", "ECR", "QB", "RB", "half", "ppr">>

TextRank(t) == CHOOSE i \in Indices(TextOrder) : TextOrder[i] = t

\* an order on metric rows that leaves the model out
MetricsLessNoModel(a, b) ==
    IF a.season # b.season THEN a.season < b.season
    ELSE IF a.scoring # b.scoring
         THEN TextRank(a.scoring) < TextRank(b.scoring)
    ELSE TextRank(a.pos_slug) < TextRank(b.pos_slug)

\* the order of sort_values(["season", "scoring", "pos_slug", "model"])
MetricsLess(a, b) ==
    IF a.season # b.season THEN a.season < b.season
    ELSE IF a.scoring # b.scoring
         THEN TextRank(a.scoring) < TextRank(b.scoring)
    ELSE IF a.pos_slug # b.pos_slug
         THEN TextRank(a.pos_slug) < TextRank(b.pos_slug)
    ELSE TextRank(a.model) < TextRank(b.model)

\* sort_values on several columns is stable
SortMetrics(rows) ==
    LET pos(i) ==
            1 + Cardinality({ j \in Indices(rows) :
                                \/ MetricsLess(rows[j], rows[i])
                                \/ /\ ~MetricsLess(rows[i], rows[j])
                                   /\ j < i })
    IN  [ k \in Indices(rows) |->
            rows[CHOOSE i \in Indices(rows) : pos(i) = k] ]

\* lines 298-304
main_end(all_metrics) ==
    IF all_metrics # <<>>
    THEN [written |-> TRUE, rows |-> SortMetrics(Concat(all_metrics)),
          line |-> "wrote"]
    ELSE [written |-> FALSE, rows |-> <<>>, line |-> "No metrics produced"]

ReportInit ==
    /\ KeyIdle
    /\ RankIdle
    /\ MergeIdle
    /\ JoinIdle
    /\ RunIdle
    /\ FetchIdle
    /\ HarvestIdle
    /\ PickIdle
    /\ ResolveIdle
    /\ NormalizeIdle
    /\ CoerceIdle
    /\ EnsureIdle
    /\ SeasonIdle
    /\ EmitIdle
    /\ rp_results \in [Indices(ReportPartitions) -> PartResults]
    /\ rp_i = 0
    /\ rp_all = <<>>
    /\ rp_out = [written |-> FALSE, rows |-> <<>>, line |-> "none"]
    /\ rp_state = "looping"

\* the body of the loop for the next partition: a metric table that is not
\* empty is appended before the merged table is written
AppendMetrics ==
    /\ rp_state = "looping"
    /\ rp_i < Len(ReportPartitions)
    /\ rp_i' = rp_i + 1
    /\ rp_all' = IF rp_results[rp_i + 1].kind = "metrics"
                 THEN Append(rp_all,
                             MetTable(ReportPartitions[rp_i + 1],
                                      rp_results[rp_i + 1].models))
                 ELSE rp_all
    /\ UNCHANGED <<rp_results, rp_out, rp_state>>
    /\ UNCHANGED notReportVars

WriteMetrics ==
    /\ rp_state = "looping"
    /\ rp_i = Len(ReportPartitions)
    /\ rp_out' = main_end(rp_all)
    /\ rp_state' = "done"
    /\ UNCHANGED <<rp_results, rp_i, rp_all>>
    /\ UNCHANGED notReportVars

ReportNext == AppendMetrics \/ WriteMetrics

SpecReport == ReportInit /\ [][ReportNext]_vars

\* the metric rows the partitions of the run have produced
ProducedRows ==
    UNION { { MetTable(ReportPartitions[i], rp_results[i].models)[k] :
                k \in Indices(rp_results[i].models) } :
            i \in Indices(ReportPartitions) }

MetricsKey(r) ==
    <<r.season, TextRank(r.scoring), TextRank(r.pos_slug), TextRank(r.model)>>

\* C16: when main has ended, the metrics table is written exactly when a
\* partition has produced metric rows; it then holds every such row once,
\* in ascending order of (season, scoring, position, predictor); when none
\* has, nothing is written and "No metrics produced" is printed
C16_MetricsWrittenIffProduced ==
    rp_state = "done"
        => /\ rp_out.written <=> ProducedRows # {}
           /\ rp_out.written
                 => /\ Len(rp_out.rows) = Cardinality(ProducedRows)
                    /\ { rp_out.rows[k] : k \in Indices(rp_out.rows) }
                          = ProducedRows
                    /\ \A k \in 1..(Len(rp_out.rows) - 1) :
                          LexLess(MetricsKey(rp_out.rows[k]),
                                  MetricsKey(rp_out.rows[k + 1]))
           /\ ~rp_out.written
                 => rp_out.rows = <<>> /\ rp_out.line = "No metrics produced"

\* a metrics table written from two partitions with several predictors
\* each, in another order than the loop produced the rows in
C16_Witness ==
    /\ rp_state = "done"
    /\ rp_out.written
    /\ Len(rp_all) = 2
    /\ Len(rp_out.rows) = 6
    /\ rp_out.rows # Concat(rp_all)

(***************************************************************************)
(* The table pickers pick_adp_table, _pick_ecr_table and pick_fpts_table.  *)
(* A table is [cols, nrows]: its headers, in order, as text, and the       *)
(* number of its rows.  Every picker goes through the tables of a document *)
(* in order and keeps the first of the widest tables it accepts.           *)
(***************************************************************************)
MaxTables == 2

SidebarRows == 3

MainRows == 40

EmptyTable == [cols |-> <<>>, nrows |-> 0]

HPlayer == <<"P", "l", "a", "y", "e", "r">>

HTeam == <<"T", "e", "a", "m">>

HAvg == <<"A", "V", "G">>

HRank == <<"R", "a", "n", "k">>

HFpts == <<"F", "P", "T", "S">>

\* the header rows of the tables of a document
HeaderRows ==
    { <<HPlayer, HTeam, HAvg>>, <<HPlayer, HAvg>>, <<HRank, HAvg>>,
      <<HPlayer, HTeam>>, <<HPlayer, HTeam, HFpts>>, <<HTeam, HFpts>> }

Tables == [ cols : HeaderRows, nrows : {SidebarRows, MainRows} ]

\* tok in c
Contains(c, tok) ==
    \E i \in 1..(Len(c) - Len(tok) + 1) : SubSeq(c, i, i + Len(tok) - 1) = tok

\* flatten_columns on a table with one header row: str(c).strip()
flatten_columns(t) ==
    [ t EXCEPT !.cols = [ k \in Indices(t.cols) |-> Strip(t.cols[k]) ] ]

\* re.sub(r"[^A-Z0-9/]", "", c.upper())
NormHeader(c) ==
    SelectSeq(UpperSeq(c), LAMBDA x : IsUpper(x) \/ x \in Digits \/ x = "/")

AdpTokens ==
    { <<"E","S","P","N">>, <<"Y","A","H","O","O">>,
      <<"S","L","E","E","P","E","R">>, <<"C","B","S">>, <<"N","F","L">>,
      <<"R","T","S","P","O","R","T","S">>, <<"F","A","N","T","R","A","X">>,
      <<"A","V","G">>, <<"A","D","P">> }

\* the tokens of pick_fpts_table with their blanks taken out
FptsTokens ==
    { <<"F","P","T","S">>, <<"F","P","T","S","/","G">>,
      <<"F","A","N","T","A","S","Y","P","O","I","N","T","S">>,
      <<"F","A","N","T","A","S","Y","P","O","I","N","T","S",
        "P","E","R","G","A","M","E">> }

\* a header of the table, normalised, holds one of the tokens
HasToken(t, tokens) ==
    \E k \in Indices(t.cols) :
        \E tok \in tokens : Contains(NormHeader(t.cols[k]), tok)

\* has_player and has_indicator of _pick_ecr_table
has_player(t) ==
    \E k \in Indices(t.cols) :
        \/ Contains(UpperSeq(t.cols[k]), <<"P","L","A","Y","E","R">>)
        \/ Contains(UpperSeq(t.cols[k]), <<"N","A","M","E">>)

has_indicator(t) ==
    \E k \in Indices(t.cols) :
        LET c == UpperSeq(t.cols[k])
        IN  \/ Contains(c, <<"R","A","N","K">>)
            \/ c = <<"R","K">>
            \/ Contains(c, <<"E","C","R">>)
            \/ Contains(c, <<"T","I","E","R">>)
            \/ c = <<"A","V","G">>

\* the loop of a picker: `ok` says which tables it accepts; a table takes
\* the place of best only when it is wider
RECURSIVE PickFrom(_, _, _, _)
PickFrom(tables, ok, best, best_cols) ==
    IF tables = <<>> THEN best
    ELSE IF Head(ok) /\ Len(Head(tables).cols) > best_cols
         THEN PickFrom(Tail(tables), Tail(ok), Head(tables),
                       Len(Head(tables).cols))
    ELSE PickFrom(Tail(tables), Tail(ok), best, best_cols)

Flattened(tables) == [ i \in Indices(tables) |-> flatten_columns(tables[i]) ]

pick_adp_table(tables) ==
    PickFrom(Flattened(tables),
             [ i \in Indices(tables) |->
                 HasToken(flatten_columns(tables[i]), AdpTokens) ],
             EmptyTable, 0 - 1)

pick_ecr_table(tables) ==
    PickFrom(Flattened(tables),
             [ i \in Indices(tables) |->
                 /\ has_player(flatten_columns(tables[i]))
                 /\ has_indicator(flatten_columns(tables[i])) ],
             EmptyTable, 0 - 1)

pick_fpts_table(tables) ==
    PickFrom(Flattened(tables),
             [ i \in Indices(tables) |->
                 HasToken(flatten_columns(tables[i]), FptsTokens) ],
             EmptyTable, 0 - 1)

PickInit ==
    /\ KeyIdle
    /\ RankIdle
    /\ MergeIdle
    /\ JoinIdle
    /\ RunIdle
    /\ FetchIdle
    /\ HarvestIdle
    /\ ReportIdle
    /\ ResolveIdle
    /\ NormalizeIdle
    /\ CoerceIdle
    /\ EnsureIdle
    /\ SeasonIdle
    /\ EmitIdle
    /\ pk_tables \in SeqsUpTo(Tables, MaxTables)
    /\ pk_adp = [done |-> FALSE, table |-> EmptyTable]
    /\ pk_ecr = [done |-> FALSE, table |-> EmptyTable]
    /\ pk_fpts = [done |-> FALSE, table |-> EmptyTable]

PickAdpTable ==
    /\ ~pk_adp.done
    /\ pk_adp' = [done |-> TRUE, table |-> pick_adp_table(pk_tables)]
    /\ UNCHANGED <<pk_tables, pk_ecr, pk_fpts>>
    /\ UNCHANGED notPickVars

PickEcrTable ==
    /\ ~pk_ecr.done
    /\ pk_ecr' = [done |-> TRUE, table |-> pick_ecr_table(pk_tables)]
    /\ UNCHANGED <<pk_tables, pk_adp, pk_fpts>>
    /\ UNCHANGED notPickVars

PickFptsTable ==
    /\ ~pk_fpts.done
    /\ pk_fpts' = [done |-> TRUE, table |-> pick_fpts_table(pk_tables)]
    /\ UNCHANGED <<pk_tables, pk_adp, pk_ecr>>
    /\ UNCHANGED notPickVars

PickNext == PickAdpTable \/ PickEcrTable \/ PickFptsTable

SpecPick == PickInit /\ [][PickNext]_vars

\* a header names the player
IdentityColumn(t) ==
    \E k \in Indices(t.cols) :
        \/ Contains(UpperSeq(t.cols[k]), UpperSeq(HPlayer))
        \/ Contains(UpperSeq(t.cols[k]), <<"N","A","M","E">>)

\* a header holds an indicator of the picker's kind
IndicatorColumn(kind, t) ==
    IF kind = "adp" THEN HasToken(t, AdpTokens)
    ELSE IF kind = "ecr" THEN has_indicator(t)
    ELSE HasToken(t, FptsTokens)

Picked(kind) ==
    IF kind = "adp" THEN pk_adp ELSE IF kind = "ecr" THEN pk_ecr ELSE pk_fpts

PickerKinds == {"adp", "ecr", "fpts"}

\* the document is a sidebar table of 3 rows and a main table of 40 rows,
\* in either order, and the main table has the player and the indicator
\* column the picker of the kind looks for
SidebarAndMain(kind, main) ==
    /\ Len(pk_tables) = 2
    /\ main \in {1, 2}
    /\ pk_tables[main].nrows = MainRows
    /\ pk_tables[3 - main].nrows = SidebarRows
    /\ IdentityColumn(pk_tables[main])
    /\ IndicatorColumn(kind, pk_tables[main])

\* C17: from a document with a 3-row sidebar table and a 40-row main table
\* every picker returns the 40-row table
C17_MainTablePicked ==
    \A kind \in PickerKinds : \A main \in {1, 2} :
        Picked(kind).done /\ SidebarAndMain(kind, main)
            => Picked(kind).table = flatten_columns(pk_tables[main])

\* C18: a table a picker returns has a player column and an indicator
\* column of the picker's kind, and the picker returns the empty table when
\* no table of the document has both
C18_PickedHasIdentityAndIndicator ==
    \A kind \in PickerKinds :
        Picked(kind).done
            => /\ Picked(kind).table # EmptyTable
                    => /\ IdentityColumn(Picked(kind).table)
                       /\ IndicatorColumn(kind, Picked(kind).table)
               /\ (\A i \in Indices(pk_tables) :
                      ~(/\ IdentityColumn(pk_tables[i])
                        /\ IndicatorColumn(kind, pk_tables[i])))
                    => Picked(kind).table = EmptyTable

(***************************************************************************)
(* Table resolution: fetch_ecr on a page it has loaded (the CSV export,    *)
(* then _parse_cheatsheet_table_html), and read_tables followed by         *)
(* pick_adp_table as harvest_adp calls them.  The page is [csv,            *)
(* global_fails, tables, ranking]: what the export gives, whether          *)
(* pd.read_html raises ValueError on the whole page, the tables of the     *)
(* page, and which of them the selector table#ranking-table (or            *)
(* table.table.player-table) finds, 0 when none.                           *)
(***************************************************************************)
CsvOutcomes ==
    {"no_link", "raises", "error_status", "no_content", "unparsable",
     "no_rows", "rows"}

CsvTable == [cols |-> <<HPlayer, HTeam, HRank>>, nrows |-> MainRows]

PageTables ==
    [ cols : {<<HPlayer, HTeam, HAvg>>, <<HPlayer, HAvg>>, <<HPlayer, HTeam>>},
      nrows : {0, MainRows} ]

Documents ==
    UNION { { [csv |-> c, global_fails |-> g, tables |-> t, ranking |-> r] :
                c \in CsvOutcomes, g \in BOOLEAN, r \in 0..Len(t) } :
            t \in SeqsUpTo(PageTables, MaxTables) }

\* df.empty
IsEmptyTable(t) == t.nrows = 0 \/ t.cols = <<>>

Resolved(status, table, tried) ==
    [done |-> TRUE, status |-> status, table |-> table, tried |-> tried]

\* pd.read_html on the whole page, [] in place of the ValueError
GlobalTables(doc) == IF doc.global_fails THEN <<>> ELSE doc.tables

\* _parse_cheatsheet_table_html: the global parse and pick, and when that
\* gives nothing the table the selector finds, and pick on it
parse_cheatsheet_table_html(doc, tried) ==
    LET df == pick_ecr_table(GlobalTables(doc))
    IN  IF ~IsEmptyTable(df) THEN Resolved("ok", df, tried \o <<"scan">>)
        ELSE IF doc.ranking = 0
             THEN Resolved("empty", EmptyTable, tried \o <<"scan", "selector">>)
        ELSE LET df2 == pick_ecr_table(<<doc.tables[doc.ranking]>>)
             IN  Resolved(IF IsEmptyTable(df2) THEN "empty" ELSE "ok",
                          IF IsEmptyTable(df2) THEN EmptyTable ELSE df2,
                          tried \o <<"scan", "selector">>)

\* fetch_ecr from line 401: the export, then the tables of the page
fetch_ecr(doc) ==
    IF doc.csv \in {"raises", "unparsable"}
    THEN Resolved("raises", EmptyTable, <<"export">>)
    ELSE IF doc.csv = "rows" THEN Resolved("ok", CsvTable, <<"export">>)
    ELSE parse_cheatsheet_table_html(doc, <<"export">>)

\* read_tables, then pick_adp_table on what it returns
read_tables(doc) ==
    IF GlobalTables(doc) # <<>>
    THEN Resolved("ok", pick_adp_table(doc.tables), <<"scan">>)
    ELSE IF doc.ranking = 0
         THEN Resolved("raises", EmptyTable, <<"scan", "selector">>)
    ELSE Resolved("ok", pick_adp_table(<<doc.tables[doc.ranking]>>),
                  <<"scan", "selector">>)

Unresolved ==
    [done |-> FALSE, status |-> "idle", table |-> EmptyTable, tried |-> <<>>]

ResolveInit ==
    /\ KeyIdle
    /\ RankIdle
    /\ MergeIdle
    /\ JoinIdle
    /\ RunIdle
    /\ FetchIdle
    /\ HarvestIdle
    /\ ReportIdle
    /\ PickIdle
    /\ NormalizeIdle
    /\ CoerceIdle
    /\ EnsureIdle
    /\ SeasonIdle
    /\ EmitIdle
    /\ rs_doc \in Documents
    /\ rs_ecr = Unresolved
    /\ rs_adp = Unresolved

FetchEcr ==
    /\ ~rs_ecr.done
    /\ rs_ecr' = fetch_ecr(rs_doc)
    /\ UNCHANGED <<rs_doc, rs_adp>>
    /\ UNCHANGED notResolveVars

ReadTables ==
    /\ ~rs_adp.done
    /\ rs_adp' = read_tables(rs_doc)
    /\ UNCHANGED <<rs_doc, rs_ecr>>
    /\ UNCHANGED notResolveVars

ResolveNext == FetchEcr \/ ReadTables

SpecResolve == ResolveInit /\ [][ResolveNext]_vars

\* the priority of a strategy
Priority(strategy) ==
    IF strategy = "export" THEN 1 ELSE IF strategy = "selector" THEN 2 ELSE 3

\* what a strategy yields on the page, taken alone
Yield(kind, strategy) ==
    IF strategy = "export"
    THEN IF kind = "ecr" /\ rs_doc.csv = "rows" THEN CsvTable ELSE EmptyTable
    ELSE LET tables == IF strategy = "scan" THEN GlobalTables(rs_doc)
                       ELSE IF rs_doc.ranking = 0 THEN <<>>
                       ELSE <<rs_doc.tables[rs_doc.ranking]>>
             df == IF kind = "ecr" THEN pick_ecr_table(tables)
                   ELSE pick_adp_table(tables)
         IN  IF IsEmptyTable(df) THEN EmptyTable ELSE df

\* the result of the first strategy, in priority order, that yields a table
FirstYield(kind) ==
    IF ~IsEmptyTable(Yield(kind, "export")) THEN Yield(kind, "export")
    ELSE IF ~IsEmptyTable(Yield(kind, "selector")) THEN Yield(kind, "selector")
    ELSE Yield(kind, "scan")

ResolvedOf(kind) == IF kind = "ecr" THEN rs_ecr ELSE rs_adp

\* the strategies of a resolver
Strategies(kind) ==
    IF kind = "ecr" THEN {"export", "selector", "scan"}
    ELSE {"selector", "scan"}

\* C19: the strategies run in the order export, selector, scan; the result
\* is that of the first of them that yields a table; and a strategy that
\* yields nothing or fails is followed by the next one
C19_FixedPriorityOrder ==
    \A kind \in {"ecr", "adp"} :
        LET r == ResolvedOf(kind)
        IN  r.done
              => /\ \A i, j \in Indices(r.tried) :
                      i < j => Priority(r.tried[i]) < Priority(r.tried[j])
                 /\ (IF IsEmptyTable(r.table) THEN EmptyTable ELSE r.table)
                        = FirstYield(kind)
                 /\ IsEmptyTable(r.table)
                      => Strategies(kind) \subseteq
                             { r.tried[i] : i \in Indices(r.tried) }

(***************************************************************************)
(* The normalizers normalize_adp_df, normalize_ecr_df, normalize_stats_df. *)
(* A table is the sequence of its columns, [name, src] each: the header    *)
(* and the number of the input column whose values the column holds, 0     *)
(* for a column the normalizer made.  The input has distinct headers.      *)
(***************************************************************************)
MaxCols == 3

HAdp == <<"A", "D", "P">>

HFptsG == <<"F", "P", "T", "S", "/", "G">>

player_name == <<"p", "l", "a", "y", "e", "r", "_", "n", "a", "m", "e">>

team == <<"t", "e", "a", "m">>

pos == <<"p", "o", "s">>

games == <<"g", "a", "m", "e", "s">>

fantasy_points == <<"f", "a", "n", "t", "a", "s", "y", "_", "p", "o", "i", "n", "t", "s">>

fantasy_points_per_game == <<"f", "a", "n", "t", "a", "s", "y", "_", "p", "o", "i", "n", "t", "s", "_", "p", "e", "r", "_", "g", "a", "m", "e">>

ecr_rank == <<"e", "c", "r", "_", "r", "a", "n", "k">>

ecr == <<"e", "c", "r">>

season == <<"s", "e", "a", "s", "o", "n">>

scoring == <<"s", "c", "o", "r", "i", "n", "g">>

pos_slug == <<"p", "o", "s", "_", "s", "l", "u", "g">>

source_url == <<"s", "o", "u", "r", "c", "e", "_", "u", "r", "l">>

adp_avg == <<"a", "d", "p", "_", "a", "v", "g">>

adp_espn == <<"a", "d", "p", "_", "e", "s", "p", "n">>

adp_yahoo == <<"a", "d", "p", "_", "y", "a", "h", "o", "o">>

adp_sleeper == <<"a", "d", "p", "_", "s", "l", "e", "e", "p", "e", "r">>

adp_cbs == <<"a", "d", "p", "_", "c", "b", "s">>

adp_nfl == <<"a", "d", "p", "_", "n", "f", "l">>

adp_rtsports == <<"a", "d", "p", "_", "r", "t", "s", "p", "o", "r", "t", "s">>

adp_fantrax == <<"a", "d", "p", "_", "f", "a", "n", "t", "r", "a", "x">>

\* the headers an input table draws from
InputHeaders ==
    {HPlayer, HTeam, HAvg, HAdp, HRank, HFpts, HFptsG, season, player_name}

InputTables ==
    { h \in SeqsUpTo(InputHeaders, MaxCols) :
        \A i, j \in Indices(h) : i # j => h[i] # h[j] }

InputFrame(headers) ==
    [ k \in Indices(headers) |-> [name |-> headers[k], src |-> k] ]

\* re.search(r"\bw\b", c, re.I) for a word w of word characters
SearchWord(c, w) ==
    \E i \in Indices(c) :
        /\ MatchesCI(c, i, w)
        /\ i = 1 \/ ~IsWord(c[i - 1])
        /\ i + Len(w) - 1 = Len(c) \/ ~IsWord(c[i + Len(w)])

\* re.search(r"\bplayer\b|\bname\b", c, re.I)
IsNameCol(c) == SearchWord(c, <<"p", "l", "a", "y", "e", "r">>) \/ SearchWord(c, <<"n", "a", "m", "e">>)

\* re.fullmatch(r"team(\s*\(bye\))?", c, flags=re.I)
IsTeamColFull(c) ==
    /\ MatchesCI(c, 1, <<"t", "e", "a", "m">>)
    /\ \/ Len(c) = 4
       \/ /\ Len(c) >= 9
          /\ MatchesCI(c, Len(c) - 4, <<"(", "b", "y", "e", ")">>)
          /\ \A k \in 5..(Len(c) - 5) : IsSpace(c[k])

\* re.fullmatch(r"pos(ition)?", c, flags=re.I)
IsPosColFull(c) == LowerSeq(c) \in {<<"p", "o", "s">>, <<"p", "o", "s", "i", "t", "i", "o", "n">>}

\* re.fullmatch(r"rk|rank", c, flags=re.I)
IsRkCol(c) == LowerSeq(c) \in {<<"r", "k">>, <<"r", "a", "n", "k">>}

\* re.fullmatch(r"ecr", c, flags=re.I) and re.fullmatch(r"avg", c, flags=re.I)
IsEcrCol(c) == LowerSeq(c) = <<"e", "c", "r">>

IsAvgCol(c) == LowerSeq(c) = <<"a", "v", "g">>

\* re.search(r"\bteam\b", c, re.I) and re.search(r"\bpos(ition)?\b", c, re.I)
IsTeamCol(c) == SearchWord(c, <<"t", "e", "a", "m">>)

IsPosCol(c) == SearchWord(c, <<"p", "o", "s">>) \/ SearchWord(c, <<"p", "o", "s", "i", "t", "i", "o", "n">>)

\* re.fullmatch(r"g|games", c, flags=re.I)
IsGamesCol(c) == LowerSeq(c) \in {<<"g">>, <<"g", "a", "m", "e", "s">>}

\* "fantasy\s*points" matches c[i..j]
FantasyPointsAt(c, i, j) ==
    /\ MatchesCI(c, i, <<"f", "a", "n", "t", "a", "s", "y">>)
    /\ MatchesCI(c, j - 5, <<"p", "o", "i", "n", "t", "s">>)
    /\ j - 5 >= i + 7
    /\ \A k \in (i + 7)..(j - 6) : IsSpace(c[k])

\* re.search(r"\bfpts\b|\bfantasy\s*points\b", c, re.I)
IsFptsCol(c) ==
    \/ SearchWord(c, <<"f", "p", "t", "s">>)
    \/ \E i, j \in Indices(c) :
           /\ FantasyPointsAt(c, i, j)
           /\ i = 1 \/ ~IsWord(c[i - 1])
           /\ j = Len(c) \/ ~IsWord(c[j + 1])

\* re.search(r"\bfpts/?g\b|\bfantasy\s*points.*game\b", c, re.I)
IsFptsGCol(c) ==
    \/ SearchWord(c, <<"f", "p", "t", "s", "g">>)
    \/ SearchWord(c, <<"f", "p", "t", "s", "/", "g">>)
    \/ \E i, j, e \in Indices(c) :
           /\ FantasyPointsAt(c, i, j)
           /\ i = 1 \/ ~IsWord(c[i - 1])
           /\ e - 3 > j
           /\ MatchesCI(c, e - 3, <<"g", "a", "m", "e">>)
           /\ e = Len(c) \/ ~IsWord(c[e + 1])

\* next((c for c in out.columns if ...), None): the first of the columns
\* numbered in ks, <<>> when there is none
FirstCol(out, ks) == IF ks = {} THEN <<>> ELSE out[Min(ks)].name

HasColumn(out, c) == \E k \in Indices(out) : out[k].name = c

\* out.rename(columns={old: new}, inplace=True) under `if old and old != new`
RenameCol(out, old, new) ==
    IF old = <<>> \/ old = new THEN out
    ELSE [ k \in Indices(out) |->
             IF out[k].name = old THEN [out[k] EXCEPT !.name = new]
             ELSE out[k] ]

\* out[c] = <a value>: the values of the columns named c are replaced, and
\* a column is added at the end when there is none
AssignCol(out, c) ==
    IF HasColumn(out, c)
    THEN [ k \in Indices(out) |->
             IF out[k].name = c THEN [out[k] EXCEPT !.src = 0] ELSE out[k] ]
    ELSE Append(out, [name |-> c, src |-> 0])

\* out[c] = pd.to_numeric(out[c], errors="coerce") raises TypeError when two
\* columns are named c, out[c] being a table then
NumericRaises(out, cs) ==
    \E c \in cs :
        Cardinality({ k \in Indices(out) : out[k].name = c }) > 1

\* out["season"] = year, ..., out["source_url"] = url
AddContext(out) ==
    With(out, LAMBDA o :
        AssignCol(AssignCol(AssignCol(AssignCol(o, season), scoring),
                            pos_slug), source_url))

\* out[labels]: for every label in turn, the columns of that name
SelectCols(out, labels) ==
    FlatMap(LAMBDA c : SelectSeq(out, LAMBDA col : col.name = c), labels)

\* core = [c for c in [...] if c in out.columns];
\* other = [c for c in out.columns if c not in core]; out[core + other]
CoreThenOther(out, core_names) ==
    With(out, LAMBDA o :
        LET core == SelectSeq(core_names, LAMBDA c : HasColumn(o, c))
            in_core(c) == \E k \in Indices(core) : core[k] = c
            other == SelectSeq([ k \in Indices(o) |-> o[k].name ],
                               LAMBDA c : ~in_core(c))
        IN  SelectCols(o, core \o other))

Normalized(status, cols) == [done |-> TRUE, status |-> status, cols |-> cols]

\* the three renames to player_name, team and pos, the columns found before
\* the first of them
RenameNameTeamPos(out) ==
    With(out, LAMBDA o :
        LET name_col == FirstCol(o, { k \in Indices(o) : IsNameCol(o[k].name) })
            team_col ==
                FirstCol(o, { k \in Indices(o) : IsTeamColFull(o[k].name) })
            pos_col ==
                FirstCol(o, { k \in Indices(o) : IsPosColFull(o[k].name) })
        IN  RenameCol(RenameCol(RenameCol(o, name_col, player_name),
                                team_col, team), pos_col, pos))

\* ren_map of normalize_adp_df
AdpName(c) ==
    LET cu == UpperSeq(c)
    IN  IF cu = <<"A", "V", "G">> THEN adp_avg
        ELSE IF cu = <<"E", "S", "P", "N">> THEN adp_espn
        ELSE IF cu = <<"Y", "A", "H", "O", "O">> THEN adp_yahoo
        ELSE IF cu = <<"S", "L", "E", "E", "P", "E", "R">> THEN adp_sleeper
        ELSE IF cu = <<"C", "B", "S">> THEN adp_cbs
        ELSE IF cu = <<"N", "F", "L">> THEN adp_nfl
        ELSE IF cu = <<"R", "T", "S", "P", "O", "R", "T", "S">> THEN adp_rtsports
        ELSE IF Contains(cu, <<"F", "A", "N", "T", "R", "A", "X">>) THEN adp_fantrax
        ELSE IF cu \in {<<"A", "D", "P">>, <<"A", "V", "G", "A", "D", "P">>} THEN adp_avg
        ELSE c

AdpCore ==
    <<player_name, team, pos, adp_espn, adp_yahoo, adp_avg,
      season, scoring, pos_slug, source_url>>

normalize_adp_df(headers) ==
    With(RenameNameTeamPos(InputFrame(headers)), LAMBDA o1 :
        With([ k \in Indices(o1) |->
                 [o1[k] EXCEPT !.name = AdpName(o1[k].name)] ], LAMBDA o2 :
            IF NumericRaises(o2, { o2[k].name : k \in
                   { i \in Indices(o2) :
                       /\ Len(o2[i].name) >= 4
                       /\ SubSeq(o2[i].name, 1, 4) = <<"a", "d", "p", "_">> } })
            THEN Normalized("TypeError", <<>>)
            ELSE Normalized("ok", CoreThenOther(AddContext(o2), AdpCore))))

\* ren of normalize_ecr_df
ecr_ren(out) ==
    With(out, LAMBDA o :
        LET name_col == FirstCol(o, { k \in Indices(o) : IsNameCol(o[k].name) })
            team_col ==
                FirstCol(o, { k \in Indices(o) : IsTeamColFull(o[k].name) })
            pos_col ==
                FirstCol(o, { k \in Indices(o) : IsPosColFull(o[k].name) })
            rk_col == FirstCol(o, { k \in Indices(o) : IsRkCol(o[k].name) })
            ecr_col == FirstCol(o, { k \in Indices(o) : IsEcrCol(o[k].name) })
            avg_col == FirstCol(o, { k \in Indices(o) : IsAvgCol(o[k].name) })
            new_name(c) ==
                IF avg_col # <<>> /\ ecr_col = <<>> /\ c = avg_col THEN ecr
                ELSE IF ecr_col # <<>> /\ c = ecr_col THEN ecr
                ELSE IF rk_col # <<>> /\ c = rk_col THEN ecr_rank
                ELSE IF pos_col # <<>> /\ c = pos_col THEN pos
                ELSE IF team_col # <<>> /\ c = team_col THEN team
                ELSE IF name_col # <<>> /\ c = name_col THEN player_name
                ELSE c
        IN  [ k \in Indices(o) |-> [o[k] EXCEPT !.name = new_name(o[k].name)] ])

EcrCore ==
    <<player_name, team, pos, ecr_rank, ecr,
      season, scoring, pos_slug, source_url>>

normalize_ecr_df(headers) ==
    With(ecr_ren([ k \in Indices(headers) |->
                     [name |-> Strip(headers[k]), src |-> k] ]), LAMBDA o1 :
        With(IF HasColumn(o1, ecr_rank) THEN o1 ELSE AssignCol(o1, ecr_rank),
             LAMBDA o2 :
            IF NumericRaises(o2, {ecr_rank, ecr})
            THEN Normalized("TypeError", <<>>)
            ELSE Normalized("ok", CoreThenOther(AddContext(o2), EcrCore))))

\* the renames of normalize_stats_df to player_name, team, pos and games
RenameStatsCols(out) ==
    With(out, LAMBDA o :
        LET name_col == FirstCol(o, { k \in Indices(o) : IsNameCol(o[k].name) })
            team_col == FirstCol(o, { k \in Indices(o) : IsTeamCol(o[k].name) })
            pos_col == FirstCol(o, { k \in Indices(o) : IsPosCol(o[k].name) })
            g_col == FirstCol(o, { k \in Indices(o) : IsGamesCol(o[k].name) })
        IN  RenameCol(RenameCol(RenameCol(RenameCol(o, name_col, player_name),
                                          team_col, team), pos_col, pos),
                      g_col, games))

\* the renames to fantasy_points and fantasy_points_per_game, both columns
\* found before the first of them
RenameFptsCols(out) ==
    With(out, LAMBDA o :
        LET fpts_col == FirstCol(o, { k \in Indices(o) : IsFptsCol(o[k].name) })
            fptsg_col ==
                FirstCol(o, { k \in Indices(o) : IsFptsGCol(o[k].name) })
        IN  RenameCol(RenameCol(o, fpts_col, fantasy_points),
                      fptsg_col, fantasy_points_per_game))

StatsCore ==
    <<player_name, team, pos, games, fantasy_points, fantasy_points_per_game,
      season, scoring, pos_slug, source_url>>

normalize_stats_df(headers) ==
    With(RenameFptsCols(RenameStatsCols(InputFrame(headers))), LAMBDA o1 :
        IF NumericRaises(o1, {fantasy_points, fantasy_points_per_game, games})
        THEN Normalized("TypeError", <<>>)
        ELSE Normalized("ok", CoreThenOther(AddContext(o1), StatsCore)))

NotNormalized == [done |-> FALSE, status |-> "idle", cols |-> <<>>]

NormalizeInit ==
    /\ KeyIdle
    /\ RankIdle
    /\ MergeIdle
    /\ JoinIdle
    /\ RunIdle
    /\ FetchIdle
    /\ HarvestIdle
    /\ ReportIdle
    /\ PickIdle
    /\ ResolveIdle
    /\ CoerceIdle
    /\ EnsureIdle
    /\ SeasonIdle
    /\ EmitIdle
    /\ nz_headers \in InputTables
    /\ nz_adp = NotNormalized
    /\ nz_ecr = NotNormalized
    /\ nz_stats = NotNormalized

NormalizeAdp ==
    /\ ~nz_adp.done
    /\ nz_adp' = normalize_adp_df(nz_headers)
    /\ UNCHANGED <<nz_headers, nz_ecr, nz_stats>>
    /\ UNCHANGED notNormalizeVars

NormalizeEcr ==
    /\ ~nz_ecr.done
    /\ nz_ecr' = normalize_ecr_df(nz_headers)
    /\ UNCHANGED <<nz_headers, nz_adp, nz_stats>>
    /\ UNCHANGED notNormalizeVars

NormalizeStats ==
    /\ ~nz_stats.done
    /\ nz_stats' = normalize_stats_df(nz_headers)
    /\ UNCHANGED <<nz_headers, nz_adp, nz_ecr>>
    /\ UNCHANGED notNormalizeVars

NormalizeNext == NormalizeAdp \/ NormalizeEcr \/ NormalizeStats

SpecNormalize == NormalizeInit /\ [][NormalizeNext]_vars

\* the canonical names of the three schemas
CanonicalNames ==
    {player_name, team, pos, games, fantasy_points, fantasy_points_per_game,
     ecr_rank, ecr, adp_avg, adp_espn, adp_yahoo, adp_sleeper, adp_cbs,
     adp_nfl, adp_rtsports, adp_fantrax}

\* the output has the input column k exactly once, under its own name or
\* under a canonical name
KeptOnce(result, k) ==
    /\ result.status = "ok"
    /\ Cardinality({ j \in Indices(result.cols) : result.cols[j].src = k }) = 1
    /\ \A j \in Indices(result.cols) :
           result.cols[j].src = k
               => \/ result.cols[j].name = Strip(nz_headers[k])
                  \/ result.cols[j].name \in CanonicalNames

\* C20: a normalizer drops no column: every column of the input is in the
\* output exactly once, under its own name or under a canonical name
C20_NoColumnDropped ==
    \A result \in {nz_adp, nz_ecr, nz_stats} :
        result.done => \A k \in Indices(nz_headers) : KeptOnce(result, k)

\* the names of the columns of a result are distinct
NamesDistinct(result) ==
    \A j, k \in Indices(result.cols) :
        j # k => result.cols[j].name # result.cols[k].name

\* C28: the column names of the output of a normalizer are distinct: no two
\* input columns end under one canonical name and none is renamed onto a
\* name already present (a TypeError of the numeric coercion is the outcome
\* of two columns under one name)
C28_OutputNamesDistinct ==
    \A result \in {nz_adp, nz_ecr, nz_stats} :
        result.done => (result.status = "ok" /\ NamesDistinct(result))

(***************************************************************************)
(* Numeric coercion.  A designated numeric column arrives as text cells;   *)
(* the normalizers run pd.to_numeric(errors="coerce") on it, and           *)
(* clean_stats_overall runs the same on the points column, fills the       *)
(* missing values with 0 and ranks.                                        *)
(***************************************************************************)
MaxCells == 3

DigitSeq == <<"0", "1", "2", "3", "4", "5", "6", "7", "8", "9">>

DigitValue(c) == (CHOOSE n \in 1..10 : DigitSeq[n] = c) - 1

\* the cells of the column: numbers, and text that is no number
Cells == { <<"0">>, <<"2">>, <<"1", "0">>, <<"-">>, <<>> }

\* the cell reads as a number (the cells hold digits or other text)
Parseable(cell) ==
    /\ cell # <<>>
    /\ \A k \in Indices(cell) : cell[k] \in Digits

RECURSIVE DecimalValue(_)
DecimalValue(cell) ==
    IF cell = <<>> THEN 0
    ELSE 10 * DecimalValue(SubSeq(cell, 1, Len(cell) - 1))
           + DigitValue(cell[Len(cell)])

\* pd.to_numeric(cell, errors="coerce")
to_numeric(cell) == IF Parseable(cell) THEN DecimalValue(cell) ELSE NaN

\* out[c] = pd.to_numeric(out[c], errors="coerce") on the column
coerce_column(cells) ==
    [done |-> TRUE, status |-> "ok",
     values |-> [ i \in Indices(cells) |-> to_numeric(cells[i]) ]]

\* the table clean_stats_overall works on once line 90 has run to_numeric
PointsTable(cells) ==
    [ has_points |-> TRUE, pos_col |-> "none",
      rows |-> [ i \in Indices(cells) |->
                   [pos |-> "QB", fantasy_points |-> to_numeric(cells[i])] ] ]

CoerceInit ==
    /\ KeyIdle
    /\ RankIdle
    /\ MergeIdle
    /\ JoinIdle
    /\ RunIdle
    /\ FetchIdle
    /\ HarvestIdle
    /\ ReportIdle
    /\ PickIdle
    /\ ResolveIdle
    /\ NormalizeIdle
    /\ EnsureIdle
    /\ SeasonIdle
    /\ EmitIdle
    /\ cz_cells \in SeqsUpTo(Cells, MaxCells)
    /\ cz_norm = [done |-> FALSE, status |-> "idle", values |-> <<>>]
    /\ cz_overall = Result("pending", <<>>)

CoerceColumn ==
    /\ ~cz_norm.done
    /\ cz_norm' = coerce_column(cz_cells)
    /\ UNCHANGED <<cz_cells, cz_overall>>
    /\ UNCHANGED notCoerceVars

CoerceAndRankOverall ==
    /\ cz_overall.status = "pending"
    /\ cz_overall' = clean_stats_overall(PointsTable(cz_cells))
    /\ UNCHANGED <<cz_cells, cz_norm>>
    /\ UNCHANGED notCoerceVars

CoerceNext == CoerceColumn \/ CoerceAndRankOverall

SpecCoerce == CoerceInit /\ [][CoerceNext]_vars

\* the final_rank clean_stats_overall gave to the row of cell i
CoercedRank(i) ==
    LET p == CHOOSE q \in Indices(cz_overall.rows) : cz_overall.rows[q].row = i
    IN  cz_overall.rows[p].final_rank

\* C21: a cell that is no number becomes a missing value wherever the
\* column is coerced: the coercion raises nothing, and the cell is not
\* turned into a number that is ranked
C21_UnparseableIsMissing ==
    /\ cz_norm.done =>
          /\ cz_norm.status = "ok"
          /\ \A i \in Indices(cz_cells) :
                ~Parseable(cz_cells[i]) => cz_norm.values[i] = NaN
    /\ cz_overall.status # "pending" =>
          /\ cz_overall.status = "ok"
          /\ \A i \in Indices(cz_cells) :
                ~Parseable(cz_cells[i]) => CoercedRank(i) = NaN

(***************************************************************************)
(* The predictor ranks: ensure_ecr_rank on a consensus table and           *)
(* add_adp_ranks on a draft-position table, with values that tie or are    *)
(* missing.                                                                *)
(***************************************************************************)
MaxRankRows == 3

\* the values of a rank, score or draft-position cell
RankCells == {1, 2, NaN}

EcrRankColumnSets ==
    { {}, {"ecr_rank"}, {"ecr"}, {"rk"}, {"ecr_rank", "ecr"}, {"ecr_rank", "rk"} }

AdpRankColumnSets == { {"adp_espn"}, {"adp_espn", "adp_avg"} }

FramesOver(column_sets) ==
    UNION { { [cols |-> cs, rows |-> rows] :
                rows \in SeqsUpTo([cs -> RankCells], MaxRankRows) } :
            cs \in column_sets }

EnsureInit ==
    /\ KeyIdle
    /\ RankIdle
    /\ MergeIdle
    /\ JoinIdle
    /\ RunIdle
    /\ FetchIdle
    /\ HarvestIdle
    /\ ReportIdle
    /\ PickIdle
    /\ ResolveIdle
    /\ NormalizeIdle
    /\ CoerceIdle
    /\ SeasonIdle
    /\ EmitIdle
    /\ \/ en_kind = "ecr" /\ en_in \in FramesOver(EcrRankColumnSets)
       \/ en_kind = "adp" /\ en_in \in FramesOver(AdpRankColumnSets)
    /\ en_out = [done |-> FALSE, df |-> EmptyDF]

EnsureEcrRank ==
    /\ en_kind = "ecr"
    /\ ~en_out.done
    /\ en_out' = [done |-> TRUE, df |-> ensure_ecr_rank(en_in)]
    /\ UNCHANGED <<en_kind, en_in>>
    /\ UNCHANGED notEnsureVars

AddAdpRanks ==
    /\ en_kind = "adp"
    /\ ~en_out.done
    /\ en_out' = [done |-> TRUE, df |-> add_adp_ranks(en_in)]
    /\ UNCHANGED <<en_kind, en_in>>
    /\ UNCHANGED notEnsureVars

EnsureNext == EnsureEcrRank \/ AddAdpRanks

SpecEnsure == EnsureInit /\ [][EnsureNext]_vars

\* the rank columns the function is to fill
PredictorRankColumns ==
    IF en_kind = "ecr" THEN {"ecr_rank"}
    ELSE { RankColumnOf(c) : c \in en_in.cols }

\* C22: after ensure_ecr_rank and add_adp_ranks every record has a rank in
\* every predictor rank column, and no two records have the same rank
C22_RanksPopulatedUnique ==
    en_out.done =>
        \A c \in PredictorRankColumns :
            /\ c \in en_out.df.cols
            /\ \A i \in Indices(en_out.df.rows) : en_out.df.rows[i][c] # NaN
            /\ \A i, j \in Indices(en_out.df.rows) :
                   i # j => en_out.df.rows[i][c] # en_out.df.rows[j][c]

\* the ecr_rank values ensure_ecr_rank derives when it does derive them
DerivedEcrRank ==
    IF "ecr" \in en_in.cols
    THEN [ i \in Indices(en_in.rows) |-> RankMinAsc(Column(en_in, "ecr"), i) ]
    ELSE IF "rk" \in en_in.cols THEN Column(en_in, "rk")
    ELSE [ i \in Indices(en_in.rows) |-> i ]

\* C25: ensure_ecr_rank leaves the table as it is only when it has an
\* ecr_rank column without a missing value; otherwise ecr_rank is derived
\* from ecr, else from rk, else from the order of the rows
C25_KeptOnlyWhenComplete ==
    en_out.done /\ en_kind = "ecr" =>
        IF /\ "ecr_rank" \in en_in.cols
           /\ \A i \in Indices(en_in.rows) : en_in.rows[i].ecr_rank # NaN
        THEN en_out.df = en_in
        ELSE /\ "ecr_rank" \in en_out.df.cols
             /\ Column(en_out.df, "ecr_rank") = DerivedEcrRank

(***************************************************************************)
(* The outcome of a partition of main whose files lack a required field.   *)
(***************************************************************************)

\* the file is there and no column of it gives the player's name
NameUnresolved(file) == file.exists /\ ~HasPlayerKey(load_csv(file))

\* a file of the partition is there and lacks a field the join requires:
\* the player's name in any of the three, the points or the position in the
\* performance file
RequiredFieldUnresolved ==
    \/ NameUnresolved(jn_ecr)
    \/ NameUnresolved(jn_adp)
    \/ NameUnresolved(jn_fin)
    \/ jn_fin.exists /\ ~StatsTable(load_csv(jn_fin)).has_points
    \/ jn_fin.exists /\ StatsTable(load_csv(jn_fin)).pos_col = "none"

\* C23: a partition with an unresolved required field ends with one [ERR]
\* line; it prints no [SKIP] line and no metrics are computed for it
C23_UnresolvedFieldIsError ==
    BodyDone /\ RequiredFieldUnresolved
        => /\ main_lines(jn_merged, jn_metrics) = <<"ERR">>
           /\ jn_metrics.status = "pending"

(***************************************************************************)
(* merge_all on the tables the cleaners return.  The tables read for       *)
(* several seasons carry the season of every row in a year column;         *)
(* clean_adp and clean_ecr return the two columns player_name and          *)
(* espn_adp / ecr_rank.  A joined row names, as before, the rows of the    *)
(* tables given to merge_all it was made from.                             *)
(***************************************************************************)

\* out = df[[player_col, adp_col]].rename(...); out[out["espn_adp"].notna()]
clean_adp(t) ==
    [ has_year |-> FALSE,
      rows |-> SelectSeq([ i \in Indices(t.rows) |->
                             [t.rows[i] EXCEPT !.year = NoYear] ],
                         LAMBDA r : r.val # NaN) ]

\* out = df[[player_col, rank_col]].rename(...)
clean_ecr(t) ==
    [ has_year |-> FALSE,
      rows |-> [ i \in Indices(t.rows) |-> [t.rows[i] EXCEPT !.year = NoYear] ] ]

\* the row of the table before clean_adp that is row k after it
RowBeforeCleanAdp(t, k) ==
    CHOOSE i \in Indices(t.rows) :
        /\ t.rows[i].val # NaN
        /\ Cardinality({ j \in 1..i : t.rows[j].val # NaN }) = k

SeasonInit ==
    /\ KeyIdle
    /\ RankIdle
    /\ MergeIdle
    /\ JoinIdle
    /\ RunIdle
    /\ FetchIdle
    /\ HarvestIdle
    /\ ReportIdle
    /\ PickIdle
    /\ ResolveIdle
    /\ NormalizeIdle
    /\ CoerceIdle
    /\ EnsureIdle
    /\ EmitIdle
    /\ \E a, e, s \in 0..MaxJoinRows :
          /\ a + e + s <= MaxJoinRows
          /\ ss_adp \in SmallTables(TRUE, a)
          /\ ss_ecr \in SmallTables(TRUE, e)
          /\ ss_stats \in SmallTables(TRUE, s)
    /\ ss_out = Result("pending", <<>>)

\* the three tables go to merge_all with their year columns
MergeWithYears ==
    /\ ss_out.status = "pending"
    /\ ss_out' = [ merge_all(ss_adp, ss_ecr, ss_stats)
                     EXCEPT !.status = "merged" ]
    /\ UNCHANGED <<ss_adp, ss_ecr, ss_stats>>
    /\ UNCHANGED notSeasonVars

\* clean_adp and clean_ecr first, as in the driver
CleanAndMerge ==
    /\ ss_out.status = "pending"
    /\ ss_out' = [ merge_all(clean_adp(ss_adp), clean_ecr(ss_ecr), ss_stats)
                     EXCEPT !.status = "cleaned" ]
    /\ UNCHANGED <<ss_adp, ss_ecr, ss_stats>>
    /\ UNCHANGED notSeasonVars

SeasonNext == MergeWithYears \/ CleanAndMerge

SpecSeason == SeasonInit /\ [][SeasonNext]_vars

\* the season of the draft-position row a joined row was made from
AdpSeason(r) ==
    IF ss_out.status = "cleaned"
    THEN ss_adp.rows[RowBeforeCleanAdp(ss_adp, r.adp_row)].year
    ELSE ss_adp.rows[r.adp_row].year

\* C24: every joined record is made of a draft-position row, a consensus
\* row and a performance row of one and the same season
C24_NoSeasonMixed ==
    ss_out.status \in {"merged", "cleaned"} =>
        \A p \in Indices(ss_out.rows) :
            /\ AdpSeason(ss_out.rows[p])
                  = ss_stats.rows[ss_out.rows[p].stats_row].year
            /\ ss_ecr.rows[ss_out.rows[p].ecr_row].year
                  = ss_stats.rows[ss_out.rows[p].stats_row].year

(***************************************************************************)
(* What a harvester writes.  The table the picker or fetch_ecr returned    *)
(* has rows that each hold the cell of one column, which the normalizer    *)
(* names pos or not; the normalizers keep every row.  A harvester prints   *)
(* one line and writes the rows of its file, <<>> standing for no file.    *)
(***************************************************************************)
MaxTableRows == 2

PosCells == {<<"Q", "B">>, <<"q", "b">>, <<"R", "B">>}

\* positions a harvester is asked for
overall == <<"o", "v", "e", "r", "a", "l", "l">>

AskedPositions == {overall, <<"q", "b">>}

PickedTables == [has_pos : BOOLEAN, rows : SeqsUpTo(PosCells, MaxTableRows)]

NotWritten == [done |-> FALSE, line |-> "", file |-> <<>>]

Missed == [done |-> TRUE, line |-> "[MISS]", file |-> <<>>]

\* df.to_csv(...) and the [OK] line: the file holds the header and the rows
Written(rows) ==
    [done |-> TRUE, line |-> "[OK]", file |-> <<"header">> \o rows]

\* df[df["pos"].str.upper().eq(p.upper())].reset_index(drop=True)
FilterByPos(rows, p) ==
    SelectSeq(rows, LAMBDA cell : UpperSeq(cell) = UpperSeq(p))

\* harvest_stats: scrape_stats returns the normalized table, or an empty one
\* when the picked table is empty
harvest_stats(t) ==
    IF t.rows = <<>> THEN Missed ELSE Written(t.rows)

\* harvest_adp: the picked table is tested, normalized and written
harvest_adp(t) ==
    IF t.rows = <<>> THEN Missed ELSE Written(t.rows)

\* harvest_ecr: the table of fetch_ecr is tested, normalized, filtered by
\* position and written
harvest_ecr(t, p) ==
    IF t.rows = <<>> THEN Missed
    ELSE IF LowerSeq(p) # overall /\ t.has_pos
         THEN Written(FilterByPos(t.rows, p))
         ELSE Written(t.rows)

EmitInit ==
    /\ KeyIdle
    /\ RankIdle
    /\ MergeIdle
    /\ JoinIdle
    /\ RunIdle
    /\ FetchIdle
    /\ HarvestIdle
    /\ ReportIdle
    /\ PickIdle
    /\ ResolveIdle
    /\ NormalizeIdle
    /\ CoerceIdle
    /\ EnsureIdle
    /\ SeasonIdle
    /\ wt_p \in AskedPositions
    /\ wt_table \in PickedTables
    /\ wt_stats = NotWritten
    /\ wt_adp = NotWritten
    /\ wt_ecr = NotWritten

WriteStats ==
    /\ ~wt_stats.done
    /\ wt_stats' = harvest_stats(wt_table)
    /\ UNCHANGED <<wt_p, wt_table, wt_adp, wt_ecr>>
    /\ UNCHANGED notEmitVars

WriteAdp ==
    /\ ~wt_adp.done
    /\ wt_adp' = harvest_adp(wt_table)
    /\ UNCHANGED <<wt_p, wt_table, wt_stats, wt_ecr>>
    /\ UNCHANGED notEmitVars

WriteEcr ==
    /\ ~wt_ecr.done
    /\ wt_ecr' = harvest_ecr(wt_table, wt_p)
    /\ UNCHANGED <<wt_p, wt_table, wt_stats, wt_adp>>
    /\ UNCHANGED notEmitVars

EmitNext == WriteStats \/ WriteAdp \/ WriteEcr

SpecEmit == EmitInit /\ [][EmitNext]_vars

\* C29: a harvester prints [OK] and writes its file only when the table
\* written has a data row; else it prints a miss and writes no file
C29_NoEmptyFileWritten ==
    \A out \in {wt_stats, wt_adp, wt_ecr} :
        out.done =>
            \/ out.line = "[OK]" /\ Len(out.file) >= 2
            \/ out.line = "[MISS]" /\ out.file = <<>>

====
